---- MODULE Spec2Model ----
(***************************************************************************)
(* A model of the feature-extraction and instance-map-merging subsystem of *)
(* histocartography (preprocessing/feature_extraction.py and               *)
(* preprocessing/tissue_mask.py).                                          *)
(*                                                                         *)
(* Arrays are sequences (1-based); a Python index i is kept 0-based and    *)
(* converted by PyIndex.  Real numbers are kept exact: feature values are  *)
(* multiples of Scale, so that every mean taken by the model is an         *)
(* integer.                                                                *)
(***************************************************************************)
EXTENDS Integers, Sequences, FiniteSets, TLC

(***************************************************************************)
(* Bounds of the model.                                                    *)
(***************************************************************************)
\* instance maps handed to FeatureMerger.process are MapRows x MapCols
MapRows == 2
MapCols == 2
\* labels of an instance map are 0 .. MaxLabel (0 is background)
MaxLabel == 2
\* original ids and merged keys of a translator handed to AverageFeatureMerger
MaxId == 3
MaxKey == 3
\* shapes of the feature tensors
LatentDim == 2
NrAugmentations == 2
\* images and instance maps of the feature extractors are ImgRows x ImgCols
ImgRows == 2
ImgCols == 2
\* patch sizes are 1 .. MaxSize
MaxSize == 4
\* batch_size is 1 .. MaxBatchSize, num_workers 0 .. MaxWorkers
MaxBatchSize == 2
MaxWorkers == 2
\* side of the square transforms.Resize makes of a patch
ResizeSide == 2
\* thumbnails handed to get_tissue_mask are ThumbRows x ThumbCols
ThumbRows == 2
ThumbCols == 3
\* n_thresholding_steps is 1 .. MaxThresholdingSteps, min_size 1 .. MaxMinSize
MaxThresholdingSteps == 2
MaxMinSize == 3

(***************************************************************************)
(* Arithmetic and sequence helpers.                                        *)
(***************************************************************************)
Min(a, b) == IF a <= b THEN a ELSE b

Max(a, b) == IF a >= b THEN a ELSE b

RECURSIVE Fact(_)
Fact(n) == IF n <= 1 THEN 1 ELSE n * Fact(n - 1)

\* every mean of at most Max(MaxId, MaxLabel) multiples of Scale is an integer
Scale == Fact(Max(MaxId, MaxLabel))

RECURSIVE SumSeq(_)
SumSeq(s) == IF s = <<>> THEN 0 ELSE Head(s) + SumSeq(Tail(s))

SetMin(S) == CHOOSE x \in S : \A y \in S : x <= y

SetMax(S) == CHOOSE x \in S : \A y \in S : x >= y

\* the elements of a finite set of integers in ascending order (np.unique)
RECURSIVE SortedSeq(_)
SortedSeq(S) == IF S = {} THEN <<>>
                ELSE <<SetMin(S)>> \o SortedSeq(S \ {SetMin(S)})

\* position (1-based) of x in ascending order among the elements of S
AscPos(x, S) == Cardinality({y \in S : y <= x})

Range(s) == {s[j] : j \in DOMAIN s}

(***************************************************************************)
(* numpy / torch indexing: index i (0-based, negative counts from the end) *)
(* into an axis of length n.  0 stands for IndexError, otherwise the       *)
(* 1-based position.                                                       *)
(***************************************************************************)
PyIndex(i, n) ==
    IF 0 <= i /\ i < n THEN i + 1
    ELSE IF -n <= i /\ i < 0 THEN i + n + 1
    ELSE 0

(***************************************************************************)
(* 2-D label arrays.                                                       *)
(***************************************************************************)
Labels == 0 .. MaxLabel

Height(a) == Len(a)

Width(a) == IF Len(a) = 0 THEN 0 ELSE Len(a[1])

Pixels(a) == (1 .. Height(a)) \X (1 .. Width(a))

At(a, p) == a[p[1]][p[2]]

\* the pixels of a set in raster order
RECURSIVE SortedPixels(_)
SortedPixels(S) ==
    IF S = {} THEN <<>>
    ELSE LET p == CHOOSE x \in S : \A y \in S :
                      x[1] < y[1] \/ (x[1] = y[1] /\ x[2] <= y[2])
         IN  <<p>> \o SortedPixels(S \ {p})

\* np.unique(a) as a set
Unique(a) == {At(a, p) : p \in Pixels(a)}

Arrays(h, w, vals) == [1 .. h -> [1 .. w -> vals]]

(***************************************************************************)
(* cv2.resize(image, dsize, interpolation=cv2.INTER_NEAREST): dsize is     *)
(* (width, height); destination pixel (r, c) takes source pixel            *)
(* (floor(r * H / rows), floor(c * W / cols)), clipped to the source.      *)
(***************************************************************************)
ResizeNearest(image, dsizeWidth, dsizeHeight) ==
    [r \in 1 .. dsizeHeight |->
        [c \in 1 .. dsizeWidth |->
            image[Min(((r - 1) * Height(image)) \div dsizeHeight, Height(image) - 1) + 1]
                 [Min(((c - 1) * Width(image)) \div dsizeWidth, Width(image) - 1) + 1]]]

\* cv2.resize refuses an empty dsize
ResizeFails(image, downsampling_factor) ==
    \/ Height(image) \div downsampling_factor = 0
    \/ Width(image) \div downsampling_factor = 0

\* FeatureMerger._downsample: passes (new_height, new_width) as dsize
FeatureMerger_downsample(image, downsampling_factor) ==
    LET new_height == Height(image) \div downsampling_factor
        new_width  == Width(image) \div downsampling_factor
    IN  ResizeNearest(image, new_height, new_width)

(***************************************************************************)
(* The translator: a dict in insertion order, a sequence of items          *)
(* [k |-> merged label, v |-> list of original ids].                       *)
(***************************************************************************)
Keys(t) == {t[j].k : j \in DOMAIN t}

ValuesOf(t, key) == (CHOOSE j \in DOMAIN t : t[j].k = key)

\* np.concatenate(list(translator.values()))
RECURSIVE AllValues(_)
AllValues(t) == IF t = <<>> THEN <<>> ELSE Head(t).v \o AllValues(Tail(t))

\* translator[assignment].append(i) on a defaultdict(list)
DictAppend(t, assignment, i) ==
    IF assignment \in Keys(t)
    THEN [j \in DOMAIN t |->
            IF t[j].k = assignment
            THEN [k |-> assignment, v |-> Append(t[j].v, i)]
            ELSE t[j]]
    ELSE Append(t, [k |-> assignment, v |-> <<i>>])

\* counts of np.unique(merged_instance_map[instance_map == i], return_counts=True)
MaskCount(instance_map, merged_instance_map, i, m) ==
    Cardinality({p \in Pixels(instance_map) :
                    At(instance_map, p) = i /\ At(merged_instance_map, p) = m})

\* the labels np.unique returns for the masked pixels
MaskAssignments(instance_map, merged_instance_map, i) ==
    {m \in Unique(merged_instance_map) :
        MaskCount(instance_map, merged_instance_map, i, m) > 0}

\* the merged label with the largest count is not the smallest of a tie but
\* the largest
AssignmentLargestLabel(instance_map, merged_instance_map, i) ==
    LET cand == MaskAssignments(instance_map, merged_instance_map, i)
        cnt(m) == MaskCount(instance_map, merged_instance_map, i, m)
    IN  CHOOSE m \in cand :
            \A m2 \in cand : cnt(m) > cnt(m2) \/ (cnt(m) = cnt(m2) /\ m >= m2)

\* assignments[counts.argmax()]: the first (smallest) label with the largest count
Assignment(instance_map, merged_instance_map, i) ==
    LET cand == MaskAssignments(instance_map, merged_instance_map, i)
        cnt(m) == MaskCount(instance_map, merged_instance_map, i, m)
    IN  CHOOSE m \in cand :
            \A m2 \in cand : cnt(m) > cnt(m2) \/ (cnt(m) = cnt(m2) /\ m <= m2)

\* a loop that starts at the background label: range(0, nr_spx)
SpxRangeFromZero(nr_spx) == 0 .. (nr_spx - 1)

\* range(1, nr_spx)
SpxRange(nr_spx) == 1 .. (nr_spx - 1)

\* a check that leaves out the merged labels
CheckOriginalIdsOnly(instance_map, merged_instance_map, t) ==
    IF t = <<>> THEN "ValueError"
    ELSE IF Len(AllValues(t)) # Cardinality(Range(AllValues(t)))
    THEN "AssertionError"
    ELSE IF \E id \in Unique(instance_map) : id \notin Range(AllValues(t))
    THEN "AssertionError"
    ELSE "ok"

\* FeatureMerger._check_translator_consistency: "ok" or the exception raised
CheckTranslatorConsistency(instance_map, merged_instance_map, t) ==
    IF \E m \in Unique(merged_instance_map) :
            m \notin Keys(t) \/ Len(t[ValuesOf(t, m)].v) = 0
    THEN "AssertionError"
    ELSE IF t = <<>> THEN "ValueError"
    ELSE IF Len(AllValues(t)) # Cardinality(Range(AllValues(t)))
    THEN "AssertionError"
    ELSE IF \E id \in Unique(instance_map) : id \notin Range(AllValues(t))
    THEN "AssertionError"
    ELSE "ok"

(***************************************************************************)
(* Feature tensors: [shape |-> <<n, ...>>, rows |-> the n slices along     *)
(* axis 0].  A slice of a rank-2 tensor is a vector, of a rank-3 tensor a  *)
(* (nr_augmentations x latent_dim) matrix.                                 *)
(***************************************************************************)
FeatureVals == {0, Scale}

Rank(f) == Len(f.shape)

\* x.mean(axis=0) of a stack of vectors
MeanVectors(rows) ==
    [d \in 1 .. Len(rows[1]) |->
        SumSeq([j \in 1 .. Len(rows) |-> rows[j][d]]) \div Len(rows)]

\* x.mean(axis=0) of a stack of matrices
MeanMatrices(rows) ==
    [a \in 1 .. Len(rows[1]) |->
        MeanVectors([j \in 1 .. Len(rows) |-> rows[j][a]])]

(***************************************************************************)
(* State of one call of FeatureMerger.process or of                        *)
(* AverageFeatureMerger.process.                                           *)
(***************************************************************************)
VARIABLES
    merger,               \* the class whose process is called
    instance_map,         \* FeatureMerger.process: initial instance map
    merged_instance_map,  \* FeatureMerger.process: merged instance map
    downsampling_factor,  \* FeatureMerger.downsampling_factor
    features,             \* the feature tensor handed to process
    translator,           \* the translator (being built, or handed in)
    spx,                  \* loop variable i of _get_translator
    merged_features,      \* the np.empty buffer of _merge_*features
    item,                 \* position of the merge loop in translator.items()
    outcome,              \* "none", "returned" or the exception raised
    pcM                   \* where the call stands

mergeVars == <<merger, instance_map, merged_instance_map, downsampling_factor,
               features, translator, spx, merged_features, item, outcome, pcM>>

\* feature tensors of n instances
Rank2Features(n) ==
    {[shape |-> <<n, LatentDim>>, rows |-> r] :
        r \in [1 .. n -> [1 .. LatentDim -> FeatureVals]]}

Rank3Features(n) ==
    {[shape |-> <<n, NrAugmentations, 1>>, rows |-> r] :
        r \in [1 .. n -> [1 .. NrAugmentations -> [1 .. 1 -> FeatureVals]]]}

\* tensors of a rank the merge does not support (their content is never read)
OtherRankFeatures(n) ==
    {[shape |-> <<n>>, rows |-> [j \in 1 .. n |-> 0]],
     [shape |-> <<n, 1, 1, 1>>, rows |-> [j \in 1 .. n |-> <<<<<<0>>>>>>]]}

AllFeatures(n) == Rank2Features(n) \cup Rank3Features(n) \cup OtherRankFeatures(n)

\* one tensor of each rank, with rows that differ from each other
SampleFeatures(n) ==
    {[shape |-> <<n, LatentDim>>,
      rows |-> [j \in 1 .. n |-> [d \in 1 .. LatentDim |-> Scale * ((j + d) % 2)]]],
     [shape |-> <<n, NrAugmentations, 1>>,
      rows |-> [j \in 1 .. n |->
                  [a \in 1 .. NrAugmentations |-> <<Scale * ((j + a) % 2)>>]]]}
    \cup OtherRankFeatures(n)

\* lists of original ids as _get_translator builds them: ascending, non-empty
IdLists == {SortedSeq(S) : S \in (SUBSET (1 .. MaxId)) \ {{}}}

\* translators handed to AverageFeatureMerger.process: any keys, in any dict
\* order, over pairwise disjoint id lists
Translators ==
    UNION {{t \in [1 .. n -> [k : 0 .. MaxKey, v : IdLists]] :
                \A a, b \in 1 .. n :
                    a # b => (t[a].k # t[b].k /\ Range(t[a].v) \cap Range(t[b].v) = {})} :
           n \in 1 .. MaxId}

\* the original ids a translator assigns
TranslatorIds(t) == Range(AllValues(t))

\* FeatureMerger.process(instance_map, merged_instance_map, features): the
\* features are those of the nonzero labels of the initial instance map
InitFeatureMerger ==
    /\ merger = "FeatureMerger"
    /\ instance_map \in Arrays(MapRows, MapCols, Labels)
    /\ merged_instance_map \in Arrays(MapRows, MapCols, Labels)
    /\ downsampling_factor \in {1, 2}
    /\ features \in SampleFeatures(Cardinality(Unique(instance_map) \ {0}))
    /\ translator = <<>>
    /\ spx = 0
    /\ merged_features = <<>>
    /\ item = 0
    /\ outcome = "none"
    /\ pcM = "process"

\* AverageFeatureMerger.process(features, translator): one feature row per
\* original id of the translator
InitAverageFeatureMerger ==
    /\ merger = "AverageFeatureMerger"
    /\ instance_map = <<>>
    /\ merged_instance_map = <<>>
    /\ downsampling_factor = 1
    /\ translator \in Translators
    /\ features \in AllFeatures(Cardinality(TranslatorIds(translator)))
    /\ spx = 0
    /\ merged_features = <<>>
    /\ item = 0
    /\ outcome = "none"
    /\ pcM = "dispatch"

InitMerge == InitFeatureMerger \/ InitAverageFeatureMerger

Raise(exception) ==
    /\ outcome' = exception
    /\ pcM' = "done"

\* first value of the loop variable of _get_translator
FirstSpx(nr_spx) ==
    IF SpxRange(nr_spx) = {} THEN nr_spx ELSE SetMin(SpxRange(nr_spx))

\* FeatureMerger.process up to the call of _get_translator
FeatureMerger_process ==
    /\ pcM = "process"
    /\ LET ds(m) == IF downsampling_factor # 1
                    THEN FeatureMerger_downsample(m, downsampling_factor)
                    ELSE m
       IN  IF downsampling_factor # 1 /\ ResizeFails(instance_map, downsampling_factor)
           THEN /\ Raise("cv2.error")
                /\ UNCHANGED <<instance_map, merged_instance_map, spx>>
           ELSE /\ instance_map' = ds(instance_map)
                /\ merged_instance_map' = ds(merged_instance_map)
                \* nr_spx = instance_map.max() + 1
                /\ spx' = FirstSpx(SetMax(Unique(ds(instance_map))) + 1)
                /\ pcM' = "get_translator"
                /\ UNCHANGED outcome
    /\ UNCHANGED <<merger, downsampling_factor, features, translator,
                   merged_features, item>>

NrSpx == SetMax(Unique(instance_map)) + 1

\* one iteration of the loop of _get_translator
GetTranslatorLoop ==
    /\ pcM = "get_translator"
    /\ spx \in SpxRange(NrSpx)
    /\ IF MaskAssignments(instance_map, merged_instance_map, spx) = {}
       THEN \* counts.argmax() of an empty array
            /\ Raise("ValueError")
            /\ UNCHANGED <<translator, spx>>
       ELSE /\ translator' = DictAppend(translator,
                    Assignment(instance_map, merged_instance_map, spx), spx)
            /\ spx' = spx + 1
            /\ UNCHANGED <<outcome, pcM>>
    /\ UNCHANGED <<merger, instance_map, merged_instance_map, downsampling_factor,
                   features, merged_features, item>>

\* the end of _get_translator: the consistency check and the return
GetTranslatorReturn ==
    /\ pcM = "get_translator"
    /\ spx \notin SpxRange(NrSpx)
    /\ LET check == CheckTranslatorConsistency(instance_map, merged_instance_map,
                                               translator)
       IN  IF check = "ok"
           THEN pcM' = "dispatch" /\ UNCHANGED outcome
           ELSE Raise(check)
    /\ UNCHANGED <<merger, instance_map, merged_instance_map, downsampling_factor,
                   features, translator, spx, merged_features, item>>

\* np.empty: the buffer holds whatever the memory held
GarbageVals == {0, 1}

EmptyBuffer(n, slice) == [j \in 1 .. n |-> slice]

\* a mis-written rank test: else instead of elif
MergeBranchElse(rank) ==
    IF rank = 2 THEN "merge_features" ELSE "merge_augmented_features"

\* the test on len(features.shape) in process
MergeBranch(rank) ==
    IF rank = 2 THEN "merge_features"
    ELSE IF rank = 3 THEN "merge_augmented_features"
    ELSE "NotImplementedError"

\* process from the rank test on: the branch taken and the allocation of the
\* buffer (features.shape[k] of a tensor of lower rank is an IndexError)
Dispatch ==
    /\ pcM = "dispatch"
    /\ LET branch == MergeBranch(Rank(features))
       IN  IF branch = "NotImplementedError"
           THEN /\ Raise("NotImplementedError")
                /\ UNCHANGED <<merged_features, item>>
           ELSE IF branch = "merge_features" /\ Rank(features) >= 2
           THEN /\ \E g \in GarbageVals :
                    merged_features' = EmptyBuffer(Len(translator),
                                            [d \in 1 .. features.shape[2] |-> g])
                /\ item' = 1
                /\ pcM' = branch
                /\ UNCHANGED outcome
           ELSE IF branch = "merge_augmented_features" /\ Rank(features) >= 3
           THEN /\ \E g \in GarbageVals :
                    merged_features' = EmptyBuffer(Len(translator),
                                            [a \in 1 .. features.shape[2] |->
                                                [d \in 1 .. features.shape[3] |-> g]])
                /\ item' = 1
                /\ pcM' = branch
                /\ UNCHANGED outcome
           ELSE /\ Raise("IndexError")
                /\ UNCHANGED <<merged_features, item>>
    /\ UNCHANGED <<merger, instance_map, merged_instance_map, downsampling_factor,
                   features, translator, spx>>

FeatureMerger_dispatch == merger = "FeatureMerger" /\ Dispatch

AverageFeatureMerger_process == merger = "AverageFeatureMerger" /\ Dispatch

\* rows read at the ids themselves: features[values]
RowsReadAtIds(values, n) == [j \in DOMAIN values |-> PyIndex(values[j], n)]

\* features[values - 1]: the positions of the rows read, 0 for an IndexError
RowsRead(values, n) == [j \in DOMAIN values |-> PyIndex(values[j] - 1, n)]

\* merged_features[index - 1]: the position of the row written
RowWritten(index, n) == PyIndex(index - 1, n)

\* merged_features[index - 1] = features[values - 1].mean(axis=0)
MergeLoopBody(mean(_)) ==
    LET index  == translator[item].k
        values == translator[item].v
        read   == RowsRead(values, features.shape[1])
        write  == RowWritten(index, Len(merged_features))
    IN  /\ item \in DOMAIN translator
        /\ IF 0 \in Range(read) \/ write = 0
           THEN /\ Raise("IndexError")
                /\ UNCHANGED <<merged_features, item>>
           ELSE /\ merged_features' =
                      [merged_features EXCEPT
                          ![write] = mean([j \in DOMAIN read |-> features.rows[read[j]]])]
                /\ item' = item + 1
                /\ UNCHANGED <<outcome, pcM>>
        /\ UNCHANGED <<merger, instance_map, merged_instance_map,
                       downsampling_factor, features, translator, spx>>

\* return torch.as_tensor(merged_features)
MergeReturn ==
    /\ item \notin DOMAIN translator
    /\ outcome' = "returned"
    /\ pcM' = "done"
    /\ UNCHANGED <<merger, instance_map, merged_instance_map, downsampling_factor,
                   features, translator, spx, merged_features, item>>

FeatureMerger_merge_features ==
    /\ merger = "FeatureMerger"
    /\ pcM = "merge_features"
    /\ (MergeLoopBody(MeanVectors) \/ MergeReturn)

FeatureMerger_merge_augmented_features ==
    /\ merger = "FeatureMerger"
    /\ pcM = "merge_augmented_features"
    /\ (MergeLoopBody(MeanMatrices) \/ MergeReturn)

AverageFeatureMerger_merge_features ==
    /\ merger = "AverageFeatureMerger"
    /\ pcM = "merge_features"
    /\ (MergeLoopBody(MeanVectors) \/ MergeReturn)

AverageFeatureMerger_merge_augmented_features ==
    /\ merger = "AverageFeatureMerger"
    /\ pcM = "merge_augmented_features"
    /\ (MergeLoopBody(MeanMatrices) \/ MergeReturn)
(***************************************************************************)
(* tissue_mask.py: get_tissue_mask.                                        *)
(***************************************************************************)
\* cv2.cvtColor to gray, 8-bit fixed point: (R*4899 + G*9617 + B*1868 + 8192) >> 14
GrayOf(r, g, b) == (r * 4899 + g * 9617 + b * 1868 + 8192) \div 16384

\* cv2.COLOR_BGR2GRAY reads channel 0 as blue
BGR2GRAY(px) == GrayOf(px[3], px[2], px[1])

\* cv2.COLOR_RGB2GRAY reads channel 0 as red
RGB2GRAY(px) == GrayOf(px[1], px[2], px[3])

MapArray(a, f(_)) == [r \in 1 .. Height(a) |-> [c \in 1 .. Width(a) |-> f(a[r][c])]]

\* the values of the pixels selected by thumbnail[thumbnail > 0], with repeats
\* kept: the set of the selected pixels
Positive(thumbnail) == {p \in Pixels(thumbnail) : At(thumbnail, p) > 0}

\* Otsu's criterion for the split "value <= v" of the selected pixels, as the
\* fraction num / den = (s0*w1 - s1*w0)^2 / (w0*w1)
OtsuSplit(thumbnail, sel, v) ==
    LET vals == SortedSeq({At(thumbnail, p) : p \in sel})
        n(x) == Cardinality({p \in sel : At(thumbnail, p) = x})
        w0 == SumSeq([j \in DOMAIN vals |-> IF vals[j] <= v THEN n(vals[j]) ELSE 0])
        w1 == SumSeq([j \in DOMAIN vals |-> IF vals[j] <= v THEN 0 ELSE n(vals[j])])
        s0 == SumSeq([j \in DOMAIN vals |-> IF vals[j] <= v THEN vals[j] * n(vals[j]) ELSE 0])
        s1 == SumSeq([j \in DOMAIN vals |-> IF vals[j] <= v THEN 0 ELSE vals[j] * n(vals[j])])
    IN  [num |-> (s0 * w1 - s1 * w0) * (s0 * w1 - s1 * w0), den |-> w0 * w1]

\* the value below which the first maximum of Otsu's criterion splits
OtsuValue(thumbnail, sel) ==
    LET vals == {At(thumbnail, p) : p \in sel}
        cand == vals \ {SetMax(vals)}
        crit == [v \in cand |-> OtsuSplit(thumbnail, sel, v)]
        better(a, b) == crit[a].num * crit[b].den > crit[b].num * crit[a].den
    IN  CHOOSE v \in cand :
            \A u \in cand : u # v => (better(v, u) \/ (~better(u, v) /\ v < u))

\* skimage's threshold_otsu(thumbnail[thumbnail > 0]) under the try of lines
\* 54-57, as the fraction num / den.  An empty or single-valued selection
\* makes threshold_otsu raise ValueError, and thresh = 0.  Integer pixels: the
\* histogram has one bin per integer and thresh is the value v of OtsuValue.
\* Float pixels: 256 bins from min to max, thresh is the centre of the bin
\* holding v: min + (2 * floor(256 * (v - min) / (max - min)) + 1) * (max - min) / 512.
Threshold(thumbnail, is_float) ==
    LET sel  == Positive(thumbnail)
        vals == {At(thumbnail, p) : p \in sel}
    IN  IF Cardinality(vals) <= 1 THEN [num |-> 0, den |-> 1]
        ELSE LET v  == OtsuValue(thumbnail, sel)
                 lo == SetMin(vals)
                 hi == SetMax(vals)
             IN  IF is_float
                 THEN [num |-> 512 * lo + (2 * ((256 * (v - lo)) \div (hi - lo)) + 1) * (hi - lo),
                       den |-> 512]
                 ELSE [num |-> v, den |-> 1]

\* thumbnail[thumbnail < thresh] = 0
ZeroBelow(thumbnail, thresh) ==
    MapArray(thumbnail, LAMBDA x : IF x * thresh.den < thresh.num THEN 0 ELSE x)

\* skimage.filters.gaussian(mode="nearest", preserve_range=True), kept to the
\* 3 x 3 binomial kernel (1 2 1) x (1 2 1) / 16 on integer-valued pixels
Gaussian(thumbnail) ==
    LET h == Height(thumbnail)
        w == Width(thumbnail)
        px(r, c) == thumbnail[Max(1, Min(h, r))][Max(1, Min(w, c))]
        row(r, c) == px(r, c - 1) + 2 * px(r, c) + px(r, c + 1)
    IN  [r \in 1 .. h |-> [c \in 1 .. w |->
            (row(r - 1, c) + 2 * row(r, c) + row(r + 1, c)) \div 16]]

\* the pixels joined to those of S through 4-connected pixels of on
RECURSIVE Grow(_, _)
Grow(S, on) ==
    LET next == S \cup {p \in on : \E q \in S :
                          \/ (p[1] = q[1] /\ (p[2] = q[2] + 1 \/ p[2] = q[2] - 1))
                          \/ (p[2] = q[2] /\ (p[1] = q[1] + 1 \/ p[1] = q[1] - 1))}
    IN  IF next = S THEN S ELSE Grow(next, on)

\* raster order of pixels
Before(p, q) == p[1] < q[1] \/ (p[1] = q[1] /\ p[2] <= q[2])

FirstPixel(S) == CHOOSE p \in S : \A q \in S : Before(p, q)

\* ndimage.label: the components, numbered 1, 2, ... by their first pixel in
\* raster order
RECURSIVE Label(_)
Label(on) ==
    IF on = {} THEN <<>>
    ELSE LET component == Grow({FirstPixel(on)}, on)
         IN  <<component>> \o Label(on \ component)

VARIABLES
    image,                 \* the array of the caller
    passed_image,          \* the values the caller's array held when it was passed in
    ndim,                  \* len(image.shape)
    thumbnail,             \* the working array of get_tissue_mask
    aliased,               \* thumbnail is the caller's array itself
    is_float,              \* thumbnail holds floats (after a gaussian)
    n_thresholding_steps,
    sigma,
    min_size,
    step,                  \* thresholding steps done
    labeled,               \* first value returned
    mask,                  \* second value returned
    outcomeT,              \* "none", "returned" or the exception raised
    pcT

tissueVars == <<image, passed_image, ndim, thumbnail, aliased, is_float, n_thresholding_steps, sigma,
                min_size, step, labeled, mask, outcomeT, pcT>>

GrayVals == {0, 60, 200}

RGBVals == {<<0, 0, 0>>, <<255, 255, 255>>, <<120, 60, 200>>}

\* a grayscale thumbnail with three levels of gray
Graded ==
    [r \in 1 .. ThumbRows |-> [c \in 1 .. ThumbCols |->
        IF r = 1 /\ c = 1 THEN 60 ELSE IF r = 1 /\ c = 2 THEN 120 ELSE 200]]

InitTissue ==
    /\ ndim \in {2, 3}
    /\ image \in IF ndim = 3 THEN Arrays(ThumbRows, ThumbCols, RGBVals)
                             ELSE Arrays(ThumbRows, ThumbCols, GrayVals) \cup {Graded}
    /\ passed_image = image
    /\ n_thresholding_steps \in 1 .. MaxThresholdingSteps
    /\ sigma \in {0, 1}
    /\ min_size \in 1 .. MaxMinSize
    /\ thumbnail = <<>>
    /\ aliased = FALSE
    /\ is_float = FALSE
    /\ step = 0
    /\ labeled = <<>>
    /\ mask = <<>>
    /\ outcomeT = "none"
    /\ pcT = "start"

\* lines 38-43: the inverted grayscale of an RGB image, else the image itself
GetTissueMask_thumbnail ==
    /\ pcT = "start"
    /\ IF ndim = 3
       THEN /\ thumbnail' = MapArray(image, LAMBDA px : 255 - BGR2GRAY(px))
            /\ aliased' = FALSE
       ELSE /\ thumbnail' = image
            /\ aliased' = TRUE
    /\ pcT' = "threshold"
    /\ UNCHANGED <<image, passed_image, ndim, is_float, n_thresholding_steps, sigma, min_size,
                   step, labeled, mask, outcomeT>>

\* lines 45-60: one pass of the thresholding loop; the assignment through the
\* boolean index writes into the caller's array while thumbnail is that array
GetTissueMask_threshold ==
    /\ pcT = "threshold"
    /\ step < n_thresholding_steps
    /\ LET smoothed == IF sigma > 0 THEN Gaussian(thumbnail) ELSE thumbnail
           float    == is_float \/ sigma > 0
           kept     == ZeroBelow(smoothed, Threshold(smoothed, float))
       IN  /\ thumbnail' = kept
           /\ is_float' = float
           /\ aliased' = (aliased /\ ~(sigma > 0))
           /\ image' = IF aliased /\ ~(sigma > 0) THEN kept ELSE image
    /\ step' = step + 1
    /\ UNCHANGED <<passed_image, ndim, n_thresholding_steps, sigma, min_size, labeled, mask,
                   outcomeT, pcT>>

\* a filter that also drops the components of exactly the minimal size
DropUpToSize(thumb, components, size) ==
    [r \in 1 .. Height(thumb) |-> [c \in 1 .. Width(thumb) |->
        IF \E l \in DOMAIN components :
               <<r, c>> \in components[l] /\ Cardinality(components[l]) > size
        THEN CHOOSE l \in DOMAIN components : <<r, c>> \in components[l]
        ELSE 0]]

\* labeled[discard] = 0 on the array of the labels
DropSmall(thumb, components, size) ==
    [r \in 1 .. Height(thumb) |-> [c \in 1 .. Width(thumb) |->
        IF \E l \in DOMAIN components :
               <<r, c>> \in components[l] /\ Cardinality(components[l]) >= size
        THEN CHOOSE l \in DOMAIN components : <<r, c>> \in components[l]
        ELSE 0]]

\* lines 63-72: binarise, label the connected components, drop the small ones
GetTissueMask_label ==
    /\ pcT = "threshold"
    /\ step = n_thresholding_steps
    /\ labeled' = DropSmall(thumbnail, Label(Positive(thumbnail)), min_size)
    /\ pcT' = "largest"
    /\ UNCHANGED <<image, passed_image, ndim, thumbnail, aliased, is_float, n_thresholding_steps,
                   sigma, min_size, step, mask, outcomeT>>

\* np.argmax(counts): the first label of maximal count; 0 stands for the
\* ValueError numpy raises for an empty counts
ArgmaxLabel(components) ==
    IF components = <<>> THEN 0
    ELSE CHOOSE l \in DOMAIN components :
             \A m \in DOMAIN components :
                 \/ Cardinality(components[l]) > Cardinality(components[m])
                 \/ (Cardinality(components[l]) = Cardinality(components[m]) /\ l <= m)

\* lines 75-77: the mask of the largest region, counted before the small ones
\* were dropped
GetTissueMask_largest ==
    /\ pcT = "largest"
    /\ LET largest == ArgmaxLabel(Label(Positive(thumbnail)))
       IN  IF largest = 0
           THEN /\ outcomeT' = "ValueError"
                /\ mask' = mask
           ELSE /\ outcomeT' = "returned"
                /\ mask' = MapArray(labeled, LAMBDA l : l = largest)
    /\ pcT' = "done"
    /\ UNCHANGED <<image, passed_image, ndim, thumbnail, aliased, is_float, n_thresholding_steps,
                   sigma, min_size, step, labeled>>

(***************************************************************************)
(* feature_extraction.py: region properties, patches, feature extractors.  *)
(***************************************************************************)
\* Python's None, for an Optional[int]
None == -1

\* regionprops(instance_map): one region per nonzero label, ascending
RegionLabels(map) == SortedSeq(Unique(map) \ {0})

RegionPixels(map, label) == {p \in Pixels(map) : At(map, p) = label}

\* region.bbox, 0-based and half-open: (min_row, min_col, max_row, max_col)
BboxOf(px) ==
    [min_x |-> SetMin({p[1] : p \in px}) - 1,
     min_y |-> SetMin({p[2] : p \in px}) - 1,
     max_x |-> SetMax({p[1] : p \in px}),
     max_y |-> SetMax({p[2] : p \in px})]

Bbox(map, label) == BboxOf(RegionPixels(map, label))

\* int(round(num / den)): Python rounds halves to the even neighbour
RoundHalfEven(num, den) ==
    LET q == num \div den
        r == num % den
    IN  IF 2 * r < den THEN q
        ELSE IF 2 * r > den THEN q + 1
        ELSE IF q % 2 = 0 THEN q ELSE q + 1

\* the sum of the values f[x] over a set
RECURSIVE SumOver(_, _)
SumOver(S, f) ==
    IF S = {} THEN 0
    ELSE LET x == CHOOSE y \in S : TRUE IN f[x] + SumOver(S \ {x}, f)

\* region.centroid, rounded, 0-based
CentroidOf(px) ==
    [x |-> RoundHalfEven(SumOver(px, [p \in px |-> p[1] - 1]), Cardinality(px)),
     y |-> RoundHalfEven(SumOver(px, [p \in px |-> p[2] - 1]), Cardinality(px))]

Centroid(map, label) == CentroidOf(RegionPixels(map, label))

\* the 0-based indices a[lo:hi] selects on an axis of length n, in order
Slice(lo, hi, n) ==
    LET norm(k) == IF k < 0 THEN Max(0, k + n) ELSE Min(k, n)
    IN  [j \in 1 .. Max(0, norm(hi) - norm(lo)) |-> norm(lo) + j - 1]

\* lines 270-271 without the max(0, .): a window may start before the image
Unclipped(lo) == lo

\* lines 270-271: min_x = max(0, min_x), min_y = max(0, min_y)
ClipLow(lo) == Max(0, lo)

\* lines 272-273: max_x = min(self.image.shape[0], max_x), likewise y
ClipHigh(dim, hi) == Min(dim, hi)

\* the test of lines 261 and 265 without "self.fill_value is None or"
AxisWindowBoxWithoutFill(center, box_min, box_max, patch_size, fill) ==
    IF box_max - box_min > patch_size
    THEN [min |-> center - (patch_size \div 2), max |-> center + (patch_size \div 2)]
    ELSE [min |-> box_min, max |-> box_max]

\* the test of lines 261 and 265 letting through a box one pixel longer
\* than the patch
AxisWindowBoxTooLong(center, box_min, box_max, patch_size, fill) ==
    IF fill = None \/ box_max - box_min > patch_size + 1
    THEN [min |-> center - (patch_size \div 2), max |-> center + (patch_size \div 2)]
    ELSE [min |-> box_min, max |-> box_max]

\* lines 255-267: the bounding box on an axis when fill_value is set and the
\* box is no longer than the patch, else the patch centred on the centroid
AxisWindow(center, box_min, box_max, patch_size, fill) ==
    IF fill = None \/ box_max - box_min > patch_size
    THEN [min |-> center - (patch_size \div 2), max |-> center + (patch_size \div 2)]
    ELSE [min |-> box_min, max |-> box_max]

\* lines 269-273: the window clipped to the image
Clipped(wx, wy, height, width) ==
    [min_x |-> ClipLow(wx.min), max_x |-> ClipHigh(height, wx.max),
     min_y |-> ClipLow(wy.min), max_y |-> ClipHigh(width, wy.max)]

\* lines 249-273 of _get_instance_patch: the crop window of a region
WindowOf(center, bbox, height, width, patch_size, fill) ==
    Clipped(AxisWindow(center.x, bbox.min_x, bbox.max_x, patch_size, fill),
            AxisWindow(center.y, bbox.min_y, bbox.max_y, patch_size, fill),
            height, width)

Window(map, label, patch_size, fill) ==
    WindowOf(Centroid(map, label), Bbox(map, label), Height(map), Width(map),
             patch_size, fill)

\* lines 288-289: image_region[mask_region] = self.fill_value, a write through
\* the view image_region into the array of the image
FillRegion(img, map, label, w, fill) ==
    [r \in 1 .. Height(img) |-> [c \in 1 .. Width(img) |->
        IF /\ fill # None
           /\ (r - 1) \in Range(Slice(w.min_x, w.max_x, Height(img)))
           /\ (c - 1) \in Range(Slice(w.min_y, w.max_y, Width(img)))
           /\ map[r][c] # label
        THEN <<fill, fill, fill>> ELSE img[r][c]]]

\* lines 280-283 and 290-293: the slice of the patch that receives length
\* pixels on an axis
Destination(length, patch_size) ==
    Slice((patch_size - length) \div 2, (patch_size - length) \div 2 + length, patch_size)

\* numpy assigns an array to a slice of the same length, or repeats a single one
Fits(src, dst) == Len(src) = Len(dst) \/ Len(src) = 1

\* the source index assigned to the position k of the destination slice
SourceAt(src, dst, k) ==
    IF Len(src) = Len(dst) THEN src[CHOOSE j \in DOMAIN dst : dst[j] = k] ELSE src[1]

\* lines 243-247: np.ones(self.patch_size) times the fill value, or 255
Ground(patch_size, fill) ==
    [r \in 1 .. patch_size |-> [c \in 1 .. patch_size |->
        IF fill # None THEN <<fill, fill, fill>> ELSE <<255, 255, 255>>]]

\* lines 290-293: output_image[...] = image_region
Paste(region, src_x, src_y, dst_x, dst_y, patch_size, fill) ==
    [r \in 1 .. patch_size |-> [c \in 1 .. patch_size |->
        IF (r - 1) \in Range(dst_x) /\ (c - 1) \in Range(dst_y)
        THEN region[SourceAt(src_x, dst_x, r - 1) + 1][SourceAt(src_y, dst_y, c - 1) + 1]
        ELSE Ground(patch_size, fill)[r][c]]]

\* lines 274-294 for the window w
CopyWindow(img, filled, w, src_x, src_y, dst_x, dst_y, patch_size, fill) ==
    IF w.max_x - w.min_x > patch_size \/ w.max_y - w.min_y > patch_size
    THEN [raised |-> "AssertionError", patch |-> <<>>, img |-> img, window |-> w]
    ELSE IF ~(Fits(src_x, dst_x) /\ Fits(src_y, dst_y))
    THEN [raised |-> "ValueError", patch |-> <<>>, img |-> filled, window |-> w]
    ELSE [raised |-> "ok", img |-> filled, window |-> w,
          patch |-> Paste(filled, src_x, src_y, dst_x, dst_y, patch_size, fill)]

\* the copy of lines 274-294 with its slices
PatchOfWindow(img, map, label, patch_size, fill, w) ==
    CopyWindow(img, FillRegion(img, map, label, w, fill), w,
               Slice(w.min_x, w.max_x, Height(img)), Slice(w.min_y, w.max_y, Width(img)),
               Destination(w.max_x - w.min_x, patch_size),
               Destination(w.max_y - w.min_y, patch_size),
               patch_size, fill)

\* _get_instance_patch (lines 233-294) on the image img: the exception raised
\* or "ok", the patch returned, the image as the call leaves it and the window
GetInstancePatch(img, map, label, patch_size, fill) ==
    PatchOfWindow(img, map, label, patch_size, fill, Window(map, label, patch_size, fill))

\* transforms.Resize then transforms.ToTensor (lines 223-226): the patch brought
\* to ResizeSide x ResizeSide (nearest neighbour), then channels first
DatasetTransform(patch) ==
    LET resized == ResizeNearest(patch, ResizeSide, ResizeSide)
    IN  [ch \in 1 .. 3 |-> [r \in 1 .. ResizeSide |-> [c \in 1 .. ResizeSide |->
            resized[r][c][ch]]]]

\* PatchFeatureExtractor.__call__: the network is a fixed function of the
\* tensor, here a weighted sum of each channel, the weight of a pixel being
\* its place in raster order, so that the embedding depends on where a value
\* stands in the tensor
Embedding(tensor) ==
    [ch \in 1 .. 3 |->
        SumSeq([r \in 1 .. ResizeSide |->
            SumSeq([c \in 1 .. ResizeSide |->
                ((r - 1) * ResizeSide + c) * tensor[ch][r][c]])])]

\* np.arange(0, 257, 32): the edges of the histogram of a channel
HistStop == 257

HistStep == 32

HistEdges == [j \in 1 .. ((HistStop - 1) \div HistStep) + 1 |-> HistStep * (j - 1)]

\* np.histogram(codes, bins): the last bin is closed on the right
Histogram(codes) ==
    [b \in 1 .. Len(HistEdges) - 1 |->
        Cardinality({j \in DOMAIN codes :
            /\ HistEdges[b] <= codes[j]
            /\ (codes[j] < HistEdges[b + 1]
                   \/ (b = Len(HistEdges) - 1 /\ codes[j] = HistEdges[b + 1]))})]

\* np.square on uint8 keeps the 8 bits of the type
Square(v) == (v * v) % 256

\* the features that are floating-point statistics are kept by name only
Stat(name) == [name |-> name]

Measured(name, num, den) == [name |-> name, num |-> num, den |-> den]

\* _color_features_per_channel (lines 63-81) on the codes of one channel of
\* the masked image and of the squared image
ColorFeaturesPerChannel(codes, codes_sq, mask_size) ==
    [b \in DOMAIN Histogram(codes) |-> Measured("hist", Histogram(codes)[b], mask_size)]
        \o <<Measured("color_mean", SumSeq(codes), Len(codes)),
             Stat("color_std"),
             Stat("color_median"),
             Stat("color_skewness"),
             Measured("color_energy", SumSeq(codes_sq), Len(codes_sq))>>

\* lines 120-145: feats_shape
FeatsShape(map, label) ==
    <<Measured("area", Cardinality(RegionPixels(map, label)), 1),
      Stat("convex_area"), Stat("eccentricity"), Stat("equivalent_diameter"),
      Stat("euler_number"), Stat("extent"), Stat("filled_area"),
      Stat("major_axis_length"), Stat("minor_axis_length"), Stat("orientation"),
      Stat("perimeter"), Stat("solidity")>>

\* lines 147-158: feats_color, the channels r, g, b one after the other
FeatsColor(img, map, label) ==
    LET mask_idx == SortedPixels(RegionPixels(map, label))
        codes(ch) == [j \in DOMAIN mask_idx |-> At(img, mask_idx[j])[ch]]
        codes_sq(ch) == [j \in DOMAIN mask_idx |-> Square(At(img, mask_idx[j])[ch])]
        feats(ch) == ColorFeaturesPerChannel(codes(ch), codes_sq(ch), Len(mask_idx))
    IN  feats(1) \o feats(2) \o feats(3)

\* lines 161-186: feats_texture
FeatsTexture ==
    <<Stat("entropy"), Stat("glcm_contrast"), Stat("glcm_dissimilarity"),
      Stat("glcm_homogeneity"), Stat("glcm_energy"), Stat("glcm_ASM")>>

\* line 188 with the colour features left out
SpFeatsNoColor(img, map, label) == FeatsShape(map, label) \o FeatsTexture

\* line 188: sp_feats = feats_shape + feats_color + feats_texture
SpFeats(img, map, label) ==
    FeatsShape(map, label) \o FeatsColor(img, map, label) \o FeatsTexture

VARIABLES
    extractor,        \* the class of the feature extractor
    input_image,      \* the RGB image of the caller; the dataset's self.image is this array
    given_image,      \* the values input_image held when the caller passed it
    size,             \* DeepFeatureExtractor.size
    fill_value,       \* DeepFeatureExtractor.fill_value
    batch_size,
    num_workers,
    regions,          \* Handcrafted: the labels of regionprops(instance_map)
    node_feat,        \* Handcrafted: the rows appended so far
    properties,       \* dataset.properties, as the labels of the regions
    worker_image,     \* the copy of the dataset's image each loader worker holds
    fetched,          \* the batches whose items have been loaded
    in_flight,        \* the batches loaded and not yet handed to the loop
    consumed,         \* the number of batches the loop has handled
    windows,          \* index -> crop window of the last _get_instance_patch
    patches,          \* index -> patch __getitem__ returned
    written,          \* the rows of features assigned so far
    outcomeE,         \* "none", "returned" or the exception raised
    pcE

\* instance_map and features are the variables of those names declared above
extractVars == <<extractor, input_image, given_image, size, fill_value, batch_size, num_workers,
                 regions, node_feat, properties, worker_image, fetched, in_flight,
                 consumed, windows, patches, written, outcomeE, pcE>>

\* what the merge holds besides instance_map and features
mergeOwnVars == <<merger, merged_instance_map, downsampling_factor, translator, spx,
                  merged_features, item, outcome, pcM>>

Uniform(v) == [r \in 1 .. ImgRows |-> [c \in 1 .. ImgCols |-> <<v, v, v>>]]

Shaded ==
    [r \in 1 .. ImgRows |-> [c \in 1 .. ImgCols |->
        <<(40 * r + 7 * c) % 256, (90 * c) % 256, (255 - 30 * r) % 256>>]]

Images == {Uniform(0), Shaded}

InitHandcrafted ==
    /\ extractor = "HandcraftedFeatureExtractor"
    /\ input_image \in Images
    /\ instance_map \in Arrays(ImgRows, ImgCols, Labels)
    /\ size = None
    /\ fill_value = None
    /\ batch_size = 0
    /\ num_workers = 0

InitDeep ==
    /\ extractor = "DeepFeatureExtractor"
    /\ input_image \in Images
    /\ instance_map \in Arrays(ImgRows, ImgCols, Labels)
    /\ size \in 1 .. MaxSize
    /\ fill_value \in {None, 255}
    /\ batch_size \in 1 .. MaxBatchSize
    /\ num_workers \in 0 .. MaxWorkers

InitExtract ==
    /\ InitHandcrafted \/ InitDeep
    /\ given_image = input_image
    /\ features = <<>>
    /\ regions = <<>>
    /\ node_feat = <<>>
    /\ properties = <<>>
    /\ worker_image = <<>>
    /\ fetched = {}
    /\ in_flight = {}
    /\ consumed = 0
    /\ windows = <<>>
    /\ patches = <<>>
    /\ written = {}
    /\ outcomeE = "none"
    /\ pcE = "extract"

\* lines 102-110: the regions of the instance map
Handcrafted_regions ==
    /\ extractor = "HandcraftedFeatureExtractor"
    /\ pcE = "extract"
    /\ regions' = RegionLabels(instance_map)
    /\ node_feat' = <<>>
    /\ pcE' = "loop"
    /\ UNCHANGED <<extractor, given_image, input_image, instance_map, features, size, fill_value,
                   batch_size, num_workers, properties, worker_image, fetched,
                   in_flight, consumed, windows, patches, written, outcomeE>>

\* lines 112-191: one pass of the loop over the regions
Handcrafted_loop ==
    /\ extractor = "HandcraftedFeatureExtractor"
    /\ pcE = "loop"
    /\ Len(node_feat) < Len(regions)
    /\ node_feat' = Append(node_feat,
                           SpFeats(input_image, instance_map, regions[Len(node_feat) + 1]))
    /\ UNCHANGED <<extractor, given_image, input_image, instance_map, features, size, fill_value,
                   batch_size, num_workers, regions, properties, worker_image, fetched,
                   in_flight, consumed, windows, patches, written, outcomeE, pcE>>

\* lines 193-194: np.vstack raises ValueError on an empty list
Handcrafted_return ==
    /\ extractor = "HandcraftedFeatureExtractor"
    /\ pcE = "loop"
    /\ Len(node_feat) = Len(regions)
    /\ outcomeE' = IF node_feat = <<>> THEN "ValueError" ELSE "returned"
    /\ pcE' = "done"
    /\ UNCHANGED <<extractor, given_image, input_image, instance_map, features, size, fill_value,
                   batch_size, num_workers, regions, node_feat, properties, worker_image,
                   fetched, in_flight, consumed, windows, patches, written>>

\* torch.empty: whatever the memory holds
EmptyRows(n) == {[j \in 1 .. n |-> <<g, g, g>>] : g \in GarbageVals}

\* lines 512-530: the dataset, the loader and the output tensor; a worker of
\* the loader works on its own copy of the dataset
Deep_dataset ==
    /\ extractor = "DeepFeatureExtractor"
    /\ pcE = "extract"
    /\ properties' = RegionLabels(instance_map)
    /\ worker_image' = [w \in 1 .. num_workers |-> input_image]
    /\ features' \in EmptyRows(Len(RegionLabels(instance_map)))
    /\ pcE' = "loop"
    /\ UNCHANGED <<extractor, given_image, input_image, instance_map, size, fill_value, batch_size,
                   num_workers, regions, node_feat, fetched, in_flight, consumed,
                   windows, patches, written, outcomeE>>

\* the batches of a sequential sampler, numbered from 0
NrBatches == (Len(properties) + batch_size - 1) \div batch_size

BatchIndices(b) ==
    [j \in 1 .. Min(batch_size, Len(properties) - b * batch_size) |-> b * batch_size + j - 1]

\* __getitem__ (lines 296-307) for the indices of a batch, one after the
\* other on the same image
RECURSIVE LoadItems(_, _, _)
RECURSIVE LoadNext(_, _, _)
LoadItems(img, indices, done) ==
    IF indices = <<>> THEN [img |-> img, items |-> done, raised |-> "ok"]
    ELSE LoadNext(GetInstancePatch(img, instance_map, properties[Head(indices) + 1],
                                   size, fill_value),
                  indices, done)

LoadNext(got, indices, done) ==
    IF got.raised # "ok"
    THEN [img |-> got.img, items |-> done, raised |-> got.raised]
    ELSE LoadItems(got.img, Tail(indices),
                   Append(done, [index |-> Head(indices), window |-> got.window,
                                 patch |-> got.patch]))

\* what the loader leaves behind once the items of batch b are loaded by
\* worker w (0: the process of the loop)
Loaded(b, w, loaded) ==
    /\ IF w = 0
       THEN input_image' = loaded.img /\ worker_image' = worker_image
       ELSE /\ input_image' = input_image
            /\ worker_image' = [worker_image EXCEPT ![w] = loaded.img]
    /\ windows' = [k \in {loaded.items[j].index : j \in DOMAIN loaded.items} |->
                      loaded.items[CHOOSE j \in DOMAIN loaded.items :
                                       loaded.items[j].index = k].window] @@ windows
    /\ patches' = [k \in {loaded.items[j].index : j \in DOMAIN loaded.items} |->
                      loaded.items[CHOOSE j \in DOMAIN loaded.items :
                                       loaded.items[j].index = k].patch] @@ patches
    /\ IF loaded.raised = "ok"
       THEN /\ in_flight' = in_flight \cup
                   {[i |-> [j \in DOMAIN loaded.items |-> loaded.items[j].index],
                     image_batch |-> [j \in DOMAIN loaded.items |->
                                         DatasetTransform(loaded.items[j].patch)]]}
            /\ fetched' = fetched \cup {b}
            /\ UNCHANGED <<outcomeE, pcE>>
       ELSE /\ outcomeE' = loaded.raised
            /\ pcE' = "done"
            /\ UNCHANGED <<in_flight, fetched>>

\* the worker a batch belongs to, 0 when the loop loads the batches itself
WorkerOf(b) == IF num_workers = 0 THEN 0 ELSE (b % num_workers) + 1

\* the loader loads a batch: in the process of the loop when num_workers is 0
\* (then one batch at a time, in order), else in the worker the batch belongs
\* to, each worker taking its batches in order
Loader_fetch ==
    /\ extractor = "DeepFeatureExtractor"
    /\ pcE = "loop"
    /\ \E b \in (0 .. NrBatches - 1) \ fetched :
        /\ IF num_workers = 0
           THEN b = consumed /\ in_flight = {}
           ELSE \A b2 \in 0 .. b - 1 : WorkerOf(b2) = WorkerOf(b) => b2 \in fetched
        /\ Loaded(b, WorkerOf(b),
                  LoadItems(IF num_workers = 0 THEN input_image
                            ELSE worker_image[WorkerOf(b)],
                            BatchIndices(b), <<>>))
    /\ UNCHANGED <<extractor, given_image, instance_map, features, size, fill_value, batch_size,
                   num_workers, regions, node_feat, properties, consumed, written>>

\* a loop that numbers the batches as they arrive
EnumerateIndex(batch, count) == [j \in DOMAIN batch.i |-> count * batch_size + j - 1]

\* line 531: the i of "for i, image_batch in image_loader"
IndexTensor(batch, count) == batch.i

\* line 533: features[i, :] = embeddings; of a repeated index the last
\* assignment stays
AssignRows(rows, i, embeddings) ==
    [k \in DOMAIN rows |->
        IF (k - 1) \in Range(i)
        THEN embeddings[CHOOSE j \in DOMAIN i :
                            i[j] = k - 1 /\ \A j2 \in DOMAIN i : i[j2] = k - 1 => j2 <= j]
        ELSE rows[k]]

\* lines 531-533: one pass of the loop, on a batch the loader hands over
Deep_loop ==
    /\ extractor = "DeepFeatureExtractor"
    /\ pcE = "loop"
    /\ \E batch \in in_flight :
        /\ features' = AssignRows(features, IndexTensor(batch, consumed),
                                  [j \in DOMAIN batch.image_batch |->
                                      Embedding(batch.image_batch[j])])
        /\ written' = written \cup Range(IndexTensor(batch, consumed))
        /\ in_flight' = in_flight \ {batch}
    /\ consumed' = consumed + 1
    /\ UNCHANGED <<extractor, given_image, input_image, instance_map, size, fill_value, batch_size,
                   num_workers, regions, node_feat, properties, worker_image, fetched,
                   windows, patches, outcomeE, pcE>>

\* line 534: the loader is exhausted
Deep_return ==
    /\ extractor = "DeepFeatureExtractor"
    /\ pcE = "loop"
    /\ consumed = NrBatches
    /\ outcomeE' = "returned"
    /\ pcE' = "done"
    /\ UNCHANGED <<extractor, given_image, input_image, instance_map, features, size, fill_value,
                   batch_size, num_workers, regions, node_feat, properties, worker_image,
                   fetched, in_flight, consumed, windows, patches, written>>

(***************************************************************************)
(* AugmentedDeepFeatureExtractor (feature_extraction.py, lines 537-642):   *)
(* the constructor builds one transform per rotation and flip, and         *)
(* _extract_features runs the loader once per transform over the same      *)
(* dataset.  The state is that of the deep extractor and what follows.     *)
(***************************************************************************)
VARIABLES
    rotations,        \* the constructor's argument: [none |-> TRUE] for None, else a list
    flips,            \* likewise
    transforms,       \* self.transforms, each an angle and a flip
    pass,             \* the i of "for i, transform in enumerate(self.transforms)"
    cell_writes       \* <<j, i>> -> the number of assignments to features[j, i, :]

augmentVars == <<rotations, flips, transforms, pass, cell_writes>>

RotationLists ==
    {[none |-> TRUE, list |-> <<>>], [none |-> FALSE, list |-> <<90>>],
     [none |-> FALSE, list |-> <<0, 180>>]}

FlipLists ==
    {[none |-> TRUE, list |-> <<>>], [none |-> FALSE, list |-> <<"h">>],
     [none |-> FALSE, list |-> <<"n", "v">>]}

\* transforms.functional.rotate by a quarter turn, counter-clockwise: the top
\* row of the result is the right column of the image
QuarterTurn(img) ==
    [r \in 1 .. Width(img) |-> [c \in 1 .. Height(img) |-> img[c][Width(img) + 1 - r]]]

\* lines 588-590: rotate(x, angle=a), for the multiples of 90 degrees
RECURSIVE Rotate(_, _)
Rotate(img, angle) ==
    IF angle = 0 THEN img ELSE Rotate(QuarterTurn(img), angle - 90)

\* lines 592-599: hflip for "h", vflip for "v", nothing for any other flip
Flip(img, flip) ==
    IF flip = "h"
    THEN [r \in 1 .. Height(img) |-> [c \in 1 .. Width(img) |-> img[r][Width(img) + 1 - c]]]
    ELSE IF flip = "v"
    THEN [r \in 1 .. Height(img) |-> [c \in 1 .. Width(img) |-> img[Height(img) + 1 - r][c]]]
    ELSE img

\* set_augmentation (lines 553-559): Resize, the augmentor, ToTensor
AugmentedTransform(patch, t) ==
    LET augmented == Flip(Rotate(ResizeNearest(patch, ResizeSide, ResizeSide), t.angle),
                          t.flip)
    IN  [ch \in 1 .. 3 |-> [r \in 1 .. ResizeSide |-> [c \in 1 .. ResizeSide |->
            augmented[r][c][ch]]]]

\* a list of transforms with the flips in the outer loop
RECURSIVE TransformsFlipMajor(_, _)
TransformsFlipMajor(angles, flip_list) ==
    IF flip_list = <<>> THEN <<>>
    ELSE [n \in DOMAIN angles |-> [angle |-> angles[n], flip |-> Head(flip_list)]]
            \o TransformsFlipMajor(angles, Tail(flip_list))

\* lines 584-600: for angle in rotations: for flip in flips: append
RECURSIVE Transforms(_, _)
Transforms(angles, flip_list) ==
    IF angles = <<>> THEN <<>>
    ELSE [n \in DOMAIN flip_list |-> [angle |-> Head(angles), flip |-> flip_list[n]]]
            \o Transforms(Tail(angles), flip_list)

InitAugmented ==
    /\ extractor = "AugmentedDeepFeatureExtractor"
    /\ input_image = Shaded
    /\ given_image = input_image
    /\ instance_map \in Arrays(ImgRows, ImgCols, Labels)
    /\ size = ImgRows
    /\ fill_value \in {None, 255}
    /\ batch_size \in 1 .. MaxBatchSize
    /\ num_workers \in {0, MaxWorkers}
    /\ rotations \in RotationLists
    /\ flips \in FlipLists
    /\ transforms = <<>>
    /\ pass = 0
    /\ cell_writes = <<>>
    /\ features = <<>>
    /\ regions = <<>>
    /\ node_feat = <<>>
    /\ properties = <<>>
    /\ worker_image = <<>>
    /\ fetched = {}
    /\ in_flight = {}
    /\ consumed = 0
    /\ windows = <<>>
    /\ patches = <<>>
    /\ written = {}
    /\ outcomeE = "none"
    /\ pcE = "init"

\* lines 577-600: the constructor
Augmented_init ==
    /\ extractor = "AugmentedDeepFeatureExtractor"
    /\ pcE = "init"
    /\ transforms' = Transforms(IF rotations.none THEN <<0>> ELSE rotations.list,
                                IF flips.none THEN <<"n">> ELSE flips.list)
    /\ pcE' = "extract"
    /\ UNCHANGED <<extractor, given_image, input_image, instance_map, features, size,
                   fill_value, batch_size, num_workers, regions, node_feat, properties,
                   worker_image, fetched, in_flight, consumed, windows, patches, written,
                   outcomeE, rotations, flips, pass, cell_writes>>

\* torch.empty of three dimensions
EmptyCells(n, t) == {[j \in 1 .. n |-> [i \in 1 .. t |-> <<g, g, g>>]] : g \in GarbageVals}

\* lines 614-636: the dataset, the loader and the output tensor
Augmented_dataset ==
    /\ extractor = "AugmentedDeepFeatureExtractor"
    /\ pcE = "extract"
    /\ properties' = RegionLabels(instance_map)
    /\ features' \in EmptyCells(Len(RegionLabels(instance_map)), Len(transforms))
    /\ cell_writes' = [cell \in (0 .. Len(RegionLabels(instance_map)) - 1)
                                    \X (0 .. Len(transforms) - 1) |-> 0]
    /\ pass' = 0
    /\ pcE' = "pass"
    /\ UNCHANGED <<extractor, given_image, input_image, instance_map, size, fill_value,
                   batch_size, num_workers, regions, node_feat, worker_image, fetched,
                   in_flight, consumed, windows, patches, written, outcomeE, rotations,
                   flips, transforms>>

\* lines 637-639: the transform of the pass is set on the dataset and the
\* loader starts anew; its workers copy the dataset as it is then
Augmented_set_augmentation ==
    /\ extractor = "AugmentedDeepFeatureExtractor"
    /\ pcE = "pass"
    /\ pass < Len(transforms)
    /\ worker_image' = [w \in 1 .. num_workers |-> input_image]
    /\ fetched' = {}
    /\ in_flight' = {}
    /\ consumed' = 0
    /\ pcE' = "loop"
    /\ UNCHANGED <<extractor, given_image, input_image, instance_map, features, size,
                   fill_value, batch_size, num_workers, regions, node_feat, properties,
                   windows, patches, written, outcomeE, rotations, flips, transforms,
                   pass, cell_writes>>

\* what the loader leaves behind once the items of batch b are loaded by
\* worker w in the pass: the patches are kept by pass and index
AugmentedLoaded(b, w, loaded) ==
    /\ IF w = 0
       THEN input_image' = loaded.img /\ worker_image' = worker_image
       ELSE /\ input_image' = input_image
            /\ worker_image' = [worker_image EXCEPT ![w] = loaded.img]
    /\ windows' = [k \in {loaded.items[j].index : j \in DOMAIN loaded.items} |->
                      loaded.items[CHOOSE j \in DOMAIN loaded.items :
                                       loaded.items[j].index = k].window] @@ windows
    /\ patches' = [k \in {<<pass, loaded.items[j].index>> : j \in DOMAIN loaded.items} |->
                      loaded.items[CHOOSE j \in DOMAIN loaded.items :
                                       loaded.items[j].index = k[2]].patch] @@ patches
    /\ IF loaded.raised = "ok"
       THEN /\ in_flight' = in_flight \cup
                   {[i |-> [j \in DOMAIN loaded.items |-> loaded.items[j].index],
                     image_batch |-> [j \in DOMAIN loaded.items |->
                          AugmentedTransform(loaded.items[j].patch, transforms[pass + 1])]]}
            /\ fetched' = fetched \cup {b}
            /\ UNCHANGED <<outcomeE, pcE>>
       ELSE /\ outcomeE' = loaded.raised
            /\ pcE' = "done"
            /\ UNCHANGED <<in_flight, fetched>>

\* the loader loads a batch of the pass
Augmented_fetch ==
    /\ extractor = "AugmentedDeepFeatureExtractor"
    /\ pcE = "loop"
    /\ \E b \in (0 .. NrBatches - 1) \ fetched :
        /\ IF num_workers = 0
           THEN b = consumed /\ in_flight = {}
           ELSE \A b2 \in 0 .. b - 1 : WorkerOf(b2) = WorkerOf(b) => b2 \in fetched
        /\ AugmentedLoaded(b, WorkerOf(b),
                  LoadItems(IF num_workers = 0 THEN input_image
                            ELSE worker_image[WorkerOf(b)],
                            BatchIndices(b), <<>>))
    /\ UNCHANGED <<extractor, given_image, instance_map, features, size, fill_value,
                   batch_size, num_workers, regions, node_feat, properties, consumed,
                   written, rotations, flips, transforms, pass, cell_writes>>

\* line 641: features[j, i, :] = embeddings
AssignCells(cells, j, i, embeddings) ==
    [k \in DOMAIN cells |->
        IF (k - 1) \in Range(j)
        THEN [cells[k] EXCEPT ![i + 1] =
                embeddings[CHOOSE n \in DOMAIN j :
                               j[n] = k - 1 /\ \A n2 \in DOMAIN j : j[n2] = k - 1 => n2 <= n]]
        ELSE cells[k]]

\* lines 639-641: one pass of the inner loop, on a batch the loader hands over
Augmented_loop ==
    /\ extractor = "AugmentedDeepFeatureExtractor"
    /\ pcE = "loop"
    /\ \E batch \in in_flight :
        /\ features' = AssignCells(features, batch.i, pass,
                                   [j \in DOMAIN batch.image_batch |->
                                       Embedding(batch.image_batch[j])])
        /\ cell_writes' = [cell \in DOMAIN cell_writes |->
                              IF cell[1] \in Range(batch.i) /\ cell[2] = pass
                              THEN cell_writes[cell] + 1 ELSE cell_writes[cell]]
        /\ in_flight' = in_flight \ {batch}
    /\ consumed' = consumed + 1
    /\ UNCHANGED <<extractor, given_image, input_image, instance_map, size, fill_value,
                   batch_size, num_workers, regions, node_feat, properties, worker_image,
                   fetched, windows, patches, written, outcomeE, pcE, rotations, flips,
                   transforms, pass>>

\* the loader of the pass is exhausted: the outer loop goes on
Augmented_next_pass ==
    /\ extractor = "AugmentedDeepFeatureExtractor"
    /\ pcE = "loop"
    /\ consumed = NrBatches
    /\ pass' = pass + 1
    /\ pcE' = "pass"
    /\ UNCHANGED <<extractor, given_image, input_image, instance_map, features, size,
                   fill_value, batch_size, num_workers, regions, node_feat, properties,
                   worker_image, fetched, in_flight, consumed, windows, patches, written,
                   outcomeE, rotations, flips, transforms, cell_writes>>

\* line 642: every transform has had its pass
Augmented_return ==
    /\ extractor = "AugmentedDeepFeatureExtractor"
    /\ pcE = "pass"
    /\ pass = Len(transforms)
    /\ outcomeE' = "returned"
    /\ pcE' = "done"
    /\ UNCHANGED <<extractor, given_image, input_image, instance_map, features, size,
                   fill_value, batch_size, num_workers, regions, node_feat, properties,
                   worker_image, fetched, in_flight, consumed, windows, patches, written,
                   rotations, flips, transforms, pass, cell_writes>>

(***************************************************************************)
(* TissueMask.process_and_save (tissue_mask.py, lines 90-116): the output  *)
(* directory is a map from output names to files.  A file is absent,       *)
(* present but unreadable (Image.open raises OSError), or a stored PNG.    *)
(***************************************************************************)
\* calls of process_and_save made on one object
MaxCalls == 3

OutputNames == {"a", "b"}

\* what process returns: a uint8 mask of zeros and ones (lines 228-231)
ProcessOutputs == Arrays(1, 2, {0, 1})

\* process either raises or returns one of the outputs
ProcessResults ==
    {[raised |-> TRUE, output |-> <<>>]}
        \cup {[raised |-> FALSE, output |-> a] : a \in ProcessOutputs}

Absent == [exists |-> FALSE, readable |-> FALSE, mode |-> "", size |-> <<0, 0>>, data |-> <<>>]

Unreadable == [exists |-> TRUE, readable |-> FALSE, mode |-> "", size |-> <<0, 0>>, data |-> <<>>]

RECURSIVE Flatten(_)
Flatten(a) == IF a = <<>> THEN <<>> ELSE Head(a) \o Flatten(Tail(a))

\* Image.fromarray(output).save(output_path): a 2-D uint8 array becomes a
\* mode "L" image of size (width, height) whose bytes are the rows in order
PngEncode(a) ==
    [exists |-> TRUE, readable |-> TRUE, mode |-> "L",
     size |-> <<Width(a), Height(a)>>, data |-> Flatten(a)]

\* np.array(Image.open(output_path)): size[2] rows of size[1] bytes
PngDecode(file) ==
    [r \in 1 .. file.size[2] |->
        [c \in 1 .. file.size[1] |-> file.data[(r - 1) * file.size[1] + c]]]

StoredFiles == {Absent, Unreadable} \cup {PngEncode(a) : a \in ProcessOutputs}

VARIABLES base_path, output_dir, process_calls, served, output_name, output,
          logged, outcomeS, calls

saveVars == <<base_path, output_dir, process_calls, served, output_name, output,
              logged, outcomeS, calls>>

\* without a base path there is no output directory, hence no file
InitSave ==
    /\ base_path \in {"None", "cache"}
    /\ output_dir \in [OutputNames -> StoredFiles]
    /\ base_path = "None" => \A name \in OutputNames : output_dir[name] = Absent
    /\ process_calls = [name \in OutputNames |-> 0]
    /\ served = {}
    /\ output_name = ""
    /\ output = <<>>
    /\ logged = <<>>
    /\ outcomeS = "none"
    /\ calls = 0

\* output_path.exists() (line 100) answers FALSE for every file
NeverExists(file) == FALSE

\* output_path.exists() (line 100)
Exists(file) == file.exists

\* lines 112-116: process is called; what it raises propagates, what it
\* returns is saved under the name and returned
Recompute(name, result) ==
    /\ process_calls' = [process_calls EXCEPT ![name] = @ + 1]
    /\ IF result.raised
       THEN /\ outcomeS' = "ProcessError"
            /\ output' = <<>>
            /\ UNCHANGED <<output_dir, served>>
       ELSE /\ output_dir' = [output_dir EXCEPT ![name] = PngEncode(result.output)]
            /\ output' = result.output
            /\ outcomeS' = "returned"
            /\ served' = served \cup {name}

\* the except branch falls back to process and replaces the file
ReadErrorRecomputes(name, result) ==
    /\ logged' = <<"info", "critical">>
    /\ Recompute(name, result)

\* lines 109-111: the OSError of Image.open is logged and raised again
ReadError(name, result) ==
    /\ logged' = <<"info", "critical">>
    /\ outcomeS' = "OSError"
    /\ output' = <<>>
    /\ UNCHANGED <<output_dir, process_calls, served>>

\* lines 100-108 and 116: the stored image is loaded and returned
LoadStored(name) ==
    /\ logged' = <<"info">>
    /\ output' = PngDecode(output_dir[name])
    /\ outcomeS' = "returned"
    /\ served' = served \cup {name}
    /\ UNCHANGED <<output_dir, process_calls>>

TissueMask_process_and_save ==
    /\ calls < MaxCalls
    /\ calls' = calls + 1
    /\ UNCHANGED base_path
    /\ \E name \in OutputNames, result \in ProcessResults :
        /\ output_name' = name
        /\ IF base_path = "None"
           THEN /\ outcomeS' = "AssertionError"
                /\ output' = <<>>
                /\ logged' = <<>>
                /\ UNCHANGED <<output_dir, process_calls, served>>
           ELSE IF Exists(output_dir[name])
           THEN IF output_dir[name].readable
                THEN LoadStored(name)
                ELSE ReadError(name, result)
           ELSE /\ logged' = <<>>
                /\ Recompute(name, result)

(***************************************************************************)
(* Backbone resolution (feature_extraction.py): PatchFeatureExtractor's    *)
(* constructor (lines 321-338) and DeepFeatureExtractor's constructor      *)
(* (lines 436-480) with _preprocess_architecture (lines 482-498).  Strings *)
(* are sequences of characters.                                            *)
(***************************************************************************)
MlflowPrefix == <<"s", "3", ":", "/", "/", "m", "l", "f", "l", "o", "w">>

PthSuffix == <<".", "p", "t", "h">>

StartsWith(s, prefix) ==
    Len(s) >= Len(prefix) /\ SubSeq(s, 1, Len(prefix)) = prefix

EndsWith(s, suffix) ==
    Len(s) >= Len(suffix) /\ SubSeq(s, Len(s) - Len(suffix) + 1, Len(s)) = suffix

\* architecture strings: with the registry prefix, a part of it or none; a
\* registry path of four segments, a zoo name, a directory or nothing; with
\* or without the file suffix
Architectures ==
    {p \o m \o x :
        p \in {<<>>, MlflowPrefix, SubSeq(MlflowPrefix, 1, 7)},
        m \in {<<>>, <<"/", "1", "/", "r", "/", "a", "/", "m">>, <<"v", "g", "g">>,
               <<"/", "d", "/", "n">>},
        x \in {<<>>, PthSuffix}}

\* str.split(sep): the pieces between the separators
RECURSIVE Split(_, _, _)
Split(s, sep, piece) ==
    IF s = <<>> THEN <<piece>>
    ELSE IF Head(s) = sep THEN <<piece>> \o Split(Tail(s), sep, <<>>)
    ELSE Split(Tail(s), sep, Append(piece, Head(s)))

\* str.replace(old, new) for single characters
RECURSIVE Replace(_, _, _)
Replace(s, old, new) ==
    IF s = <<>> THEN <<>>
    ELSE <<IF Head(s) = old THEN new ELSE Head(s)>> \o Replace(Tail(s), old, new)

\* lines 492-498; the unpacking of line 493 needs exactly five pieces
PreprocessArchitecture(s) ==
    IF StartsWith(s, MlflowPrefix)
    THEN LET pieces == Split(SubSeq(s, 6, Len(s)), "/", <<>>)
         IN  IF Len(pieces) # 5
             THEN [raised |-> TRUE, name |-> <<>>]
             ELSE [raised |-> FALSE,
                   name |-> <<"M", "L", "f", "l", "o", "w", "(">> \o pieces[2] \o <<",">>
                            \o pieces[3] \o <<",">> \o pieces[5] \o <<")">>]
    ELSE IF EndsWith(s, PthSuffix)
    THEN [raised |-> FALSE,
          name |-> <<"L", "o", "c", "a", "l", "(">> \o Replace(s, "/", "_") \o <<")">>]
    ELSE [raised |-> FALSE, name |-> s]

\* the suffix test made before the prefix test
LoaderSuffixFirst(s) ==
    IF EndsWith(s, PthSuffix) THEN "_get_local_model"
    ELSE IF StartsWith(s, MlflowPrefix) THEN "_get_mlflow_model"
    ELSE "_get_torchvision_model"

\* lines 329-334: the loader PatchFeatureExtractor calls
Loader(s) ==
    IF StartsWith(s, MlflowPrefix) THEN "_get_mlflow_model"
    ELSE IF EndsWith(s, PthSuffix) THEN "_get_local_model"
    ELSE "_get_torchvision_model"

VARIABLES architecture, cuda, constructor, self_architecture, loader_calls, outcomeR

resolveVars == <<architecture, cuda, constructor, self_architecture, loader_calls, outcomeR>>

InitResolve ==
    /\ architecture \in Architectures
    /\ cuda \in BOOLEAN
    /\ constructor = "none"
    /\ self_architecture = <<>>
    /\ loader_calls = <<>>
    /\ outcomeR = "none"

\* lines 327-338: one loader is called with the string and the device; a
\* loader that cannot find its model raises
PatchFeatureExtractor_construct ==
    /\ loader_calls' = Append(loader_calls,
            [loader |-> Loader(architecture), argument |-> architecture,
             device |-> IF cuda THEN "cuda:0" ELSE "cpu"])
    /\ \E found \in BOOLEAN :
            outcomeR' = IF found THEN "constructed" ELSE "LoaderError"

PatchFeatureExtractor_init ==
    /\ constructor = "none"
    /\ constructor' = "PatchFeatureExtractor"
    /\ PatchFeatureExtractor_construct
    /\ UNCHANGED <<architecture, cuda, self_architecture>>

\* lines 453-480: the name is preprocessed first, then the patch feature
\* extractor is built from the unprocessed string
DeepFeatureExtractor_init ==
    /\ constructor = "none"
    /\ constructor' = "DeepFeatureExtractor"
    /\ UNCHANGED <<architecture, cuda>>
    /\ IF PreprocessArchitecture(architecture).raised
       THEN /\ outcomeR' = "ValueError"
            /\ UNCHANGED <<self_architecture, loader_calls>>
       ELSE /\ self_architecture' = PreprocessArchitecture(architecture).name
            /\ PatchFeatureExtractor_construct

(***************************************************************************)
(* GaussianTissueMask.process (tissue_mask.py, lines 195-231).  The calls  *)
(* of get_tissue_mask are the steps of get_tissue_mask above, on the       *)
(* variables above: image is the working image of process, and             *)
(* n_thresholding_steps, sigma and min_size are the object's.              *)
(***************************************************************************)
VARIABLES
    caller_image,             \* the array the caller passed to process
    mask_downsampling_factor, \* self.downsampling_factor
    kernel_size,
    dilation_steps,
    background_gray_value,
    image_gray,
    tissue_mask,
    iterations,               \* the dilated mask of each iteration and whether it passed the test
    outcomeG,                 \* "none", "returned" or the exception raised
    pcG

gaussianVars == <<caller_image, mask_downsampling_factor, kernel_size, dilation_steps,
                  background_gray_value, image_gray, tissue_mask, iterations, outcomeG,
                  pcG>>

\* _downsample (lines 163-178): dsize is (new_width, new_height)
GaussianTissueMask_downsample(img, factor) ==
    ResizeNearest(img, Width(img) \div factor, Height(img) \div factor)

\* _upsample (lines 180-193)
GaussianTissueMask_upsample(img, new_height, new_width) ==
    ResizeNearest(img, new_width, new_height)

\* the images of the callers: an image of ThumbRows x ThumbCols pixels,
\* enlarged by the downsampling factor
InitGaussian ==
    /\ mask_downsampling_factor \in {1, 2}
    /\ \E small \in Arrays(ThumbRows, ThumbCols, RGBVals) :
          caller_image = ResizeNearest(small, ThumbCols * mask_downsampling_factor,
                                       ThumbRows * mask_downsampling_factor)
    /\ kernel_size \in {1, 2}
    /\ dilation_steps = 1
    /\ background_gray_value \in {50, 228}
    /\ n_thresholding_steps = 1
    /\ sigma \in {0, 1}
    /\ min_size \in {1, MaxMinSize}
    /\ passed_image = caller_image
    /\ image = <<>>
    /\ image_gray = <<>>
    /\ tissue_mask = <<>>
    /\ iterations = <<>>
    /\ outcomeG = "none"
    /\ pcG = "start"
    /\ ndim = 0
    /\ thumbnail = <<>>
    /\ aliased = FALSE
    /\ is_float = FALSE
    /\ step = 0
    /\ labeled = <<>>
    /\ mask = <<>>
    /\ outcomeT = "none"
    /\ pcT = "rest"

\* lines 203-208: the working image (the caller's array itself when the
\* factor is 1), the empty tissue mask and the grayscale image
Process_start ==
    /\ pcG = "start"
    /\ image' = IF mask_downsampling_factor # 1
                THEN GaussianTissueMask_downsample(caller_image, mask_downsampling_factor)
                ELSE caller_image
    /\ tissue_mask' = MapArray(image', LAMBDA px : 0)
    /\ image_gray' = MapArray(image', RGB2GRAY)
    /\ pcG' = "call"
    /\ UNCHANGED <<caller_image, mask_downsampling_factor, kernel_size, dilation_steps,
                   background_gray_value, iterations, outcomeG, passed_image, ndim, thumbnail, aliased,
                   is_float, n_thresholding_steps, sigma, min_size, step, labeled, mask,
                   outcomeT, pcT>>

\* lines 212-217: get_tissue_mask is called on the working image
Process_call ==
    /\ pcG = "call"
    /\ ndim' = 3
    /\ thumbnail' = <<>>
    /\ aliased' = FALSE
    /\ is_float' = FALSE
    /\ step' = 0
    /\ labeled' = <<>>
    /\ mask' = <<>>
    /\ outcomeT' = "none"
    /\ pcT' = "start"
    /\ pcG' = "in_call"
    /\ UNCHANGED <<caller_image, mask_downsampling_factor, kernel_size, dilation_steps,
                   background_gray_value, image_gray, tissue_mask, iterations, outcomeG,
                   image, passed_image, n_thresholding_steps, sigma, min_size>>

\* one cv2.dilate with a kernel of ones of side k, anchored at (k div 2, k div 2);
\* what lies outside the image is not counted
DilateOnce(map, k) ==
    [r \in 1 .. Height(map) |-> [c \in 1 .. Width(map) |->
        IF \E dr \in 0 .. k - 1 : \E dc \in 0 .. k - 1 :
               /\ <<r + dr - (k \div 2), c + dc - (k \div 2)>> \in Pixels(map)
               /\ map[r + dr - (k \div 2)][c + dc - (k \div 2)] # 0
        THEN 1 ELSE 0]]

\* lines 218-220: mask_.astype(np.uint8) dilated dilation_steps times
RECURSIVE Dilate(_, _, _)
Dilate(map, k, steps) ==
    IF steps = 0 THEN map ELSE Dilate(DilateOnce(map, k), k, steps - 1)

\* the test of line 223 with the mean taken over every pixel of the grayscale
\* image instead of the masked ones
MeanOfImageBelow(dilated, gray, bound) ==
    SumOver(Pixels(gray), [p \in Pixels(gray) |-> At(gray, p)])
        < bound * Cardinality(Pixels(gray))

\* lines 221-223: image_masked[image_masked > 0].mean() < background_gray_value;
\* the mean of no pixel is nan, and nan is below nothing
MeanBelow(dilated, gray, bound) ==
    LET selected == {p \in Pixels(gray) : At(dilated, p) * At(gray, p) > 0}
    IN  /\ selected # {}
        /\ SumOver(selected, [p \in selected |-> At(dilated, p) * At(gray, p)])
                < bound * Cardinality(selected)

\* lines 224-225 writing nothing
OverwriteNothing(a, dilated, value) == a

\* lines 224-225 on an array: the pixels of the mask take the value
Overwrite(a, dilated, value) ==
    [r \in 1 .. Height(a) |-> [c \in 1 .. Width(a) |->
        IF dilated[r][c] # 0 THEN value ELSE a[r][c]]]

\* lines 218-227 once get_tissue_mask has ended: what it raised goes on to the
\* caller; else the mask is dilated and tested, and either added to the
\* tissue mask and whitened in the working image, or the loop ends
Process_iteration ==
    /\ pcG = "in_call"
    /\ pcT = "done"
    /\ IF outcomeT # "returned"
       THEN /\ outcomeG' = outcomeT
            /\ pcG' = "done"
            /\ UNCHANGED <<image, caller_image, tissue_mask, iterations>>
       ELSE LET mask_ == Dilate(MapArray(mask, LAMBDA b : IF b THEN 1 ELSE 0),
                                kernel_size, dilation_steps)
                passed == MeanBelow(mask_, image_gray, background_gray_value)
            IN  /\ iterations' = Append(iterations, [mask_ |-> mask_, passed |-> passed])
                /\ IF passed
                   THEN /\ tissue_mask' = Overwrite(tissue_mask, mask_, 1)
                        /\ image' = Overwrite(image, mask_, <<255, 255, 255>>)
                        /\ caller_image' = IF mask_downsampling_factor # 1
                                           THEN caller_image
                                           ELSE Overwrite(image, mask_, <<255, 255, 255>>)
                        /\ pcG' = "call"
                   ELSE /\ pcG' = "return"
                        /\ UNCHANGED <<image, caller_image, tissue_mask>>
                /\ UNCHANGED outcomeG
    /\ pcT' = "rest"
    /\ UNCHANGED <<mask_downsampling_factor, kernel_size, dilation_steps,
                   background_gray_value, image_gray, passed_image, ndim, thumbnail, aliased, is_float,
                   n_thresholding_steps, sigma, min_size, step, labeled, mask, outcomeT>>

\* lines 228-231: the tissue mask brought back to the size of the caller's image
Process_return ==
    /\ pcG = "return"
    /\ tissue_mask' = GaussianTissueMask_upsample(tissue_mask, Height(caller_image),
                                                  Width(caller_image))
    /\ outcomeG' = "returned"
    /\ pcG' = "done"
    /\ UNCHANGED <<caller_image, mask_downsampling_factor, kernel_size, dilation_steps,
                   background_gray_value, image_gray, iterations, tissueVars>>

(***************************************************************************)
(* The two _downsample functions (feature_extraction.py, lines 655-672,    *)
(* and tissue_mask.py, lines 163-178) called on the same array with the    *)
(* same factor.                                                            *)
(***************************************************************************)
\* the arrays have 1 .. MaxHeight rows and 1 .. MaxWidth columns
MaxHeight == 2
MaxWidth == 4

VARIABLES
    input_array,      \* the array handed to both functions
    factor_given,     \* the downsampling factor handed to both
    merger_output,    \* what FeatureMerger._downsample gave
    mask_output       \* what GaussianTissueMask._downsample gave

downsampleVars == <<input_array, factor_given, merger_output, mask_output>>

NotCalled == [outcome |-> "none", array |-> <<>>]

InitDownsample ==
    /\ \E h \in 1 .. MaxHeight, w \in 1 .. MaxWidth : input_array \in Arrays(h, w, {0, 1})
    /\ factor_given \in {1, 2}
    /\ merger_output = NotCalled
    /\ mask_output = NotCalled

\* FeatureMerger._downsample(image, downsampling_factor)
FeatureMerger_downsample_call ==
    /\ merger_output = NotCalled
    /\ merger_output' =
          IF ResizeFails(input_array, factor_given)
          THEN [outcome |-> "cv2.error", array |-> <<>>]
          ELSE [outcome |-> "returned",
                array |-> FeatureMerger_downsample(input_array, factor_given)]
    /\ UNCHANGED <<input_array, factor_given, mask_output>>

\* GaussianTissueMask._downsample(image, downsampling_factor)
GaussianTissueMask_downsample_call ==
    /\ mask_output = NotCalled
    /\ mask_output' =
          IF ResizeFails(input_array, factor_given)
          THEN [outcome |-> "cv2.error", array |-> <<>>]
          ELSE [outcome |-> "returned",
                array |-> GaussianTissueMask_downsample(input_array, factor_given)]
    /\ UNCHANGED <<input_array, factor_given, merger_output>>

(***************************************************************************)
(* The specifications: one per component, the other components at rest.    *)
(***************************************************************************)
vars == <<mergeVars, tissueVars, extractVars, saveVars, resolveVars, augmentVars, gaussianVars,
         downsampleVars>>

MergeOwnAtRest ==
    /\ merger = "none"
    /\ merged_instance_map = <<>>
    /\ downsampling_factor = 1
    /\ translator = <<>>
    /\ spx = 0
    /\ merged_features = <<>>
    /\ item = 0
    /\ outcome = "none"
    /\ pcM = "rest"

MergeAtRest ==
    /\ MergeOwnAtRest
    /\ instance_map = <<>>
    /\ features = <<>>

ExtractAtRest ==
    /\ extractor = "none"
    /\ input_image = <<>>
    /\ given_image = <<>>
    /\ size = None
    /\ fill_value = None
    /\ batch_size = 0
    /\ num_workers = 0
    /\ regions = <<>>
    /\ node_feat = <<>>
    /\ properties = <<>>
    /\ worker_image = <<>>
    /\ fetched = {}
    /\ in_flight = {}
    /\ consumed = 0
    /\ windows = <<>>
    /\ patches = <<>>
    /\ written = {}
    /\ outcomeE = "none"
    /\ pcE = "rest"

TissueAtRest ==
    /\ image = <<>>
    /\ passed_image = <<>>
    /\ ndim = 0
    /\ thumbnail = <<>>
    /\ aliased = FALSE
    /\ is_float = FALSE
    /\ n_thresholding_steps = 0
    /\ sigma = 0
    /\ min_size = 0
    /\ step = 0
    /\ labeled = <<>>
    /\ mask = <<>>
    /\ outcomeT = "none"
    /\ pcT = "rest"

DownsampleAtRest ==
    /\ input_array = <<>>
    /\ factor_given = 1
    /\ merger_output = NotCalled
    /\ mask_output = NotCalled

SaveAtRest ==
    /\ base_path = "None"
    /\ output_dir = <<>>
    /\ process_calls = <<>>
    /\ served = {}
    /\ output_name = ""
    /\ output = <<>>
    /\ logged = <<>>
    /\ outcomeS = "none"
    /\ calls = 0

ResolveAtRest ==
    /\ architecture = <<>>
    /\ cuda = FALSE
    /\ constructor = "none"
    /\ self_architecture = <<>>
    /\ loader_calls = <<>>
    /\ outcomeR = "none"

AugmentAtRest ==
    /\ rotations = <<>>
    /\ flips = <<>>
    /\ transforms = <<>>
    /\ pass = 0
    /\ cell_writes = <<>>

GaussianAtRest ==
    /\ caller_image = <<>>
    /\ mask_downsampling_factor = 1
    /\ kernel_size = 0
    /\ dilation_steps = 0
    /\ background_gray_value = 0
    /\ image_gray = <<>>
    /\ tissue_mask = <<>>
    /\ iterations = <<>>
    /\ outcomeG = "none"
    /\ pcG = "rest"

NextMerge ==
    \/ FeatureMerger_process /\ UNCHANGED <<tissueVars, extractVars, saveVars, resolveVars, augmentVars, gaussianVars, downsampleVars>>
    \/ GetTranslatorLoop /\ UNCHANGED <<tissueVars, extractVars, saveVars, resolveVars, augmentVars, gaussianVars, downsampleVars>>
    \/ GetTranslatorReturn /\ UNCHANGED <<tissueVars, extractVars, saveVars, resolveVars, augmentVars, gaussianVars, downsampleVars>>
    \/ FeatureMerger_dispatch /\ UNCHANGED <<tissueVars, extractVars, saveVars, resolveVars, augmentVars, gaussianVars, downsampleVars>>
    \/ FeatureMerger_merge_features /\ UNCHANGED <<tissueVars, extractVars, saveVars, resolveVars, augmentVars, gaussianVars, downsampleVars>>
    \/ FeatureMerger_merge_augmented_features /\ UNCHANGED <<tissueVars, extractVars, saveVars, resolveVars, augmentVars, gaussianVars, downsampleVars>>
    \/ AverageFeatureMerger_process /\ UNCHANGED <<tissueVars, extractVars, saveVars, resolveVars, augmentVars, gaussianVars, downsampleVars>>
    \/ AverageFeatureMerger_merge_features /\ UNCHANGED <<tissueVars, extractVars, saveVars, resolveVars, augmentVars, gaussianVars, downsampleVars>>
    \/ AverageFeatureMerger_merge_augmented_features /\ UNCHANGED <<tissueVars, extractVars, saveVars, resolveVars, augmentVars, gaussianVars, downsampleVars>>

InitSpecMerge == InitMerge /\ TissueAtRest /\ ExtractAtRest /\ SaveAtRest /\ ResolveAtRest /\ AugmentAtRest /\ GaussianAtRest /\ DownsampleAtRest

SpecMerge == InitSpecMerge /\ [][NextMerge]_vars

NextTissue ==
    \/ GetTissueMask_thumbnail /\ UNCHANGED <<mergeVars, extractVars, saveVars, resolveVars, augmentVars, gaussianVars, downsampleVars>>
    \/ GetTissueMask_threshold /\ UNCHANGED <<mergeVars, extractVars, saveVars, resolveVars, augmentVars, gaussianVars, downsampleVars>>
    \/ GetTissueMask_label /\ UNCHANGED <<mergeVars, extractVars, saveVars, resolveVars, augmentVars, gaussianVars, downsampleVars>>
    \/ GetTissueMask_largest /\ UNCHANGED <<mergeVars, extractVars, saveVars, resolveVars, augmentVars, gaussianVars, downsampleVars>>

InitSpecTissue == InitTissue /\ MergeAtRest /\ ExtractAtRest /\ SaveAtRest /\ ResolveAtRest /\ AugmentAtRest /\ GaussianAtRest /\ DownsampleAtRest

SpecTissue == InitSpecTissue /\ [][NextTissue]_vars

NextExtract ==
    \/ Handcrafted_regions /\ UNCHANGED <<mergeOwnVars, tissueVars, saveVars, resolveVars, augmentVars, gaussianVars, downsampleVars>>
    \/ Handcrafted_loop /\ UNCHANGED <<mergeOwnVars, tissueVars, saveVars, resolveVars, augmentVars, gaussianVars, downsampleVars>>
    \/ Handcrafted_return /\ UNCHANGED <<mergeOwnVars, tissueVars, saveVars, resolveVars, augmentVars, gaussianVars, downsampleVars>>
    \/ Deep_dataset /\ UNCHANGED <<mergeOwnVars, tissueVars, saveVars, resolveVars, augmentVars, gaussianVars, downsampleVars>>
    \/ Loader_fetch /\ UNCHANGED <<mergeOwnVars, tissueVars, saveVars, resolveVars, augmentVars, gaussianVars, downsampleVars>>
    \/ Deep_loop /\ UNCHANGED <<mergeOwnVars, tissueVars, saveVars, resolveVars, augmentVars, gaussianVars, downsampleVars>>
    \/ Deep_return /\ UNCHANGED <<mergeOwnVars, tissueVars, saveVars, resolveVars, augmentVars, gaussianVars, downsampleVars>>

InitSpecExtract == InitExtract /\ MergeOwnAtRest /\ TissueAtRest /\ SaveAtRest /\ ResolveAtRest /\ AugmentAtRest /\ GaussianAtRest /\ DownsampleAtRest

SpecExtract == InitSpecExtract /\ [][NextExtract]_vars

NextSave ==
    \/ TissueMask_process_and_save /\ UNCHANGED <<mergeVars, tissueVars, extractVars, resolveVars, augmentVars, gaussianVars, downsampleVars>>

InitSpecSave == InitSave /\ MergeAtRest /\ TissueAtRest /\ ExtractAtRest /\ ResolveAtRest /\ AugmentAtRest /\ GaussianAtRest /\ DownsampleAtRest

SpecSave == InitSpecSave /\ [][NextSave]_vars

NextResolve ==
    \/ PatchFeatureExtractor_init /\ UNCHANGED <<mergeVars, tissueVars, extractVars, saveVars, augmentVars, gaussianVars, downsampleVars>>
    \/ DeepFeatureExtractor_init /\ UNCHANGED <<mergeVars, tissueVars, extractVars, saveVars, augmentVars, gaussianVars, downsampleVars>>

InitSpecResolve == InitResolve /\ MergeAtRest /\ TissueAtRest /\ ExtractAtRest /\ SaveAtRest /\ AugmentAtRest /\ GaussianAtRest /\ DownsampleAtRest

SpecResolve == InitSpecResolve /\ [][NextResolve]_vars

NextAugment ==
    \/ Augmented_init /\ UNCHANGED <<mergeOwnVars, tissueVars, saveVars, resolveVars, gaussianVars, downsampleVars>>
    \/ Augmented_dataset /\ UNCHANGED <<mergeOwnVars, tissueVars, saveVars, resolveVars, gaussianVars, downsampleVars>>
    \/ Augmented_set_augmentation /\ UNCHANGED <<mergeOwnVars, tissueVars, saveVars, resolveVars, gaussianVars, downsampleVars>>
    \/ Augmented_fetch /\ UNCHANGED <<mergeOwnVars, tissueVars, saveVars, resolveVars, gaussianVars, downsampleVars>>
    \/ Augmented_loop /\ UNCHANGED <<mergeOwnVars, tissueVars, saveVars, resolveVars, gaussianVars, downsampleVars>>
    \/ Augmented_next_pass /\ UNCHANGED <<mergeOwnVars, tissueVars, saveVars, resolveVars, gaussianVars, downsampleVars>>
    \/ Augmented_return /\ UNCHANGED <<mergeOwnVars, tissueVars, saveVars, resolveVars, gaussianVars, downsampleVars>>

InitSpecAugment == InitAugmented /\ MergeOwnAtRest /\ TissueAtRest /\ SaveAtRest /\ ResolveAtRest /\ GaussianAtRest /\ DownsampleAtRest

SpecAugment == InitSpecAugment /\ [][NextAugment]_vars

NextGaussian ==
    \/ Process_start /\ UNCHANGED <<mergeVars, extractVars, saveVars, resolveVars, augmentVars, downsampleVars>>
    \/ Process_call /\ UNCHANGED <<mergeVars, extractVars, saveVars, resolveVars, augmentVars, downsampleVars>>
    \/ (pcG = "in_call" /\ GetTissueMask_thumbnail) /\ UNCHANGED <<mergeVars, extractVars, saveVars, resolveVars, augmentVars, gaussianVars, downsampleVars>>
    \/ (pcG = "in_call" /\ GetTissueMask_threshold) /\ UNCHANGED <<mergeVars, extractVars, saveVars, resolveVars, augmentVars, gaussianVars, downsampleVars>>
    \/ (pcG = "in_call" /\ GetTissueMask_label) /\ UNCHANGED <<mergeVars, extractVars, saveVars, resolveVars, augmentVars, gaussianVars, downsampleVars>>
    \/ (pcG = "in_call" /\ GetTissueMask_largest) /\ UNCHANGED <<mergeVars, extractVars, saveVars, resolveVars, augmentVars, gaussianVars, downsampleVars>>
    \/ Process_iteration /\ UNCHANGED <<mergeVars, extractVars, saveVars, resolveVars, augmentVars, downsampleVars>>
    \/ Process_return /\ UNCHANGED <<mergeVars, extractVars, saveVars, resolveVars, augmentVars, downsampleVars>>

InitSpecGaussian == InitGaussian /\ MergeAtRest /\ ExtractAtRest /\ SaveAtRest /\ ResolveAtRest /\ AugmentAtRest /\ DownsampleAtRest

SpecGaussian == InitSpecGaussian /\ [][NextGaussian]_vars

\* a step of process moves its place in the code: pcG, the place in the
\* call of get_tissue_mask, or the count of thresholding steps
ProcessAdvances ==
    /\ pcG # "done"
    /\ pcG' \in {"start", "call", "in_call", "return", "done"}
    /\ pcT' \in {"rest", "start", "threshold", "largest", "done"}
    /\ step' \in 0 .. MaxThresholdingSteps
    /\ <<pcG, pcT, step>>' # <<pcG, pcT, step>>

\* process runs in one thread and is never suspended for good: as long as
\* it has not ended it goes on to its next step
SpecGaussianLive == SpecGaussian /\ WF_<<pcG, pcT, step>>(ProcessAdvances)

NextDownsample ==
    \/ FeatureMerger_downsample_call /\ UNCHANGED <<mergeVars, tissueVars, extractVars, saveVars, resolveVars, augmentVars, gaussianVars>>
    \/ GaussianTissueMask_downsample_call /\ UNCHANGED <<mergeVars, tissueVars, extractVars, saveVars, resolveVars, augmentVars, gaussianVars>>

InitSpecDownsample == InitDownsample /\ MergeAtRest /\ TissueAtRest /\ ExtractAtRest /\ SaveAtRest /\ ResolveAtRest /\ AugmentAtRest /\ GaussianAtRest

SpecDownsample == InitSpecDownsample /\ [][NextDownsample]_vars
(***************************************************************************)
(* Properties of the translator and of the merge.                          *)
(***************************************************************************)
\* _get_translator has returned its translator to FeatureMerger.process
TranslatorReturned == merger = "FeatureMerger" /\ pcM = "dispatch"

ExpectedMean(j) ==
    MeanVectors([n \in DOMAIN translator[j].v |->
                    features.rows[AscPos(translator[j].v[n], TranslatorIds(translator))]])

\* C4: merging a 2-D feature matrix returns one row per merged label of the
\* translator, the row of a merged label being the elementwise mean of the
\* feature rows of the original instances assigned to it.  (Whatever row is
\* taken to be the row of a merged label: some one-to-one assignment of the
\* rows to the merged labels must do.)
C4_MergedRowsAreMeans ==
    (pcM = "done" /\ outcome = "returned" /\ Rank(features) = 2) =>
        /\ Len(merged_features) = Len(translator)
        /\ \E row \in [DOMAIN translator -> DOMAIN merged_features] :
              /\ \A a, b \in DOMAIN translator : a # b => row[a] # row[b]
              /\ \A j \in DOMAIN translator : merged_features[row[j]] = ExpectedMean(j)

\* the identity translator of an n-row feature tensor: merged id m holds
\* exactly the original id m, for m = 1 .. n (in any dict order)
IsIdentity(t, n) ==
    /\ Len(t) = n
    /\ Keys(t) = 1 .. n
    /\ \A j \in DOMAIN t : t[j].v = <<t[j].k>>

\* C5: AverageFeatureMerger.process with the identity translator returns the
\* feature tensor it was given, row for row.
C5_IdentityMergeIsIdentity ==
    (/\ merger = "AverageFeatureMerger"
     /\ pcM = "done"
     /\ Rank(features) \in {2, 3}
     /\ IsIdentity(translator, features.shape[1]))
        => (outcome = "returned" /\ merged_features = features.rows)

\* an identity merge of three rows that are not all equal, dict order reversed
C5_Witness ==
    /\ merger = "AverageFeatureMerger"
    /\ pcM = "done"
    /\ outcome = "returned"
    /\ Rank(features) = 3
    /\ IsIdentity(translator, 3)
    /\ translator[1].k = 3
    /\ features.rows[1] # features.rows[2]

\* the exceptions of the steps FeatureMerger.process takes before its rank test
BeforeRankTest == {"cv2.error", "ValueError", "AssertionError"}

\* C9 as stated: a call with a feature tensor of a rank other than 2 or 3
\* ends in NotImplementedError, for both classes.
C9_OtherRankNotImplemented ==
    (pcM = "done" /\ Rank(features) \notin {2, 3}) => outcome = "NotImplementedError"

\* C9, amended: a call with a feature tensor of a rank other than 2 or 3 never
\* returns a result; it ends in NotImplementedError, except that
\* FeatureMerger.process, which downsamples and computes the translator before
\* it tests the rank, ends in their exception when one of them raises.  A
\* tensor of rank 2 or 3 never ends in NotImplementedError.
C9_OtherRankSignalled ==
    pcM = "done" =>
        /\ Rank(features) \notin {2, 3} =>
              \/ outcome = "NotImplementedError"
              \/ merger = "FeatureMerger" /\ outcome \in BeforeRankTest
        /\ Rank(features) \in {2, 3} => outcome # "NotImplementedError"

\* FeatureMerger.process got its translator and refused a rank-4 tensor
C9_Witness ==
    /\ merger = "FeatureMerger"
    /\ pcM = "done"
    /\ Rank(features) = 4
    /\ translator # <<>>
    /\ outcome = "NotImplementedError"

\* the three conditions _get_translator has to validate
EveryMergedLabelAssigned ==
    \A m \in Unique(merged_instance_map) :
        \E j \in DOMAIN translator : translator[j].k = m /\ translator[j].v # <<>>

NoIdAssignedTwice ==
    \A a, b \in DOMAIN translator : \A x \in DOMAIN translator[a].v :
        \A y \in DOMAIN translator[b].v :
            (a # b \/ x # y) => translator[a].v[x] # translator[b].v[y]

EveryOriginalIdAssigned ==
    \A id \in Unique(instance_map) \ {0} :
        \E j \in DOMAIN translator : id \in Range(translator[j].v)

\* C10: once _get_translator has ended, if a merged label received no
\* instance, or an id is assigned twice, or an id of the original map is
\* assigned nowhere, then the call has raised (no translator has been
\* returned); it raised AssertionError unless the loop itself failed on an id
\* without pixels.
C10_TranslatorValidated ==
    (merger = "FeatureMerger" /\ pcM \in {"dispatch", "done"} /\ outcome # "cv2.error") =>
        /\ ~(EveryMergedLabelAssigned /\ NoIdAssignedTwice /\ EveryOriginalIdAssigned)
              => (pcM = "done" /\ outcome \in {"AssertionError", "ValueError"})
        /\ outcome = "ValueError" =>
              \E i \in SpxRange(NrSpx) : i \notin Unique(instance_map)

\* the loop assigned every instance, a merged label was left without one, and
\* the check raised
C10_Witness ==
    /\ merger = "FeatureMerger"
    /\ pcM = "done"
    /\ outcome = "AssertionError"
    /\ EveryOriginalIdAssigned
    /\ 0 \notin Unique(instance_map)
    /\ ~EveryMergedLabelAssigned

\* some id between 1 and the largest label of the original map has no pixel
HasGap ==
    \E i \in 1 .. SetMax(Unique(instance_map)) : i \notin Unique(instance_map)

\* FeatureMerger.process has called _get_translator and the call has ended
GetTranslatorEnded ==
    /\ merger = "FeatureMerger"
    /\ pcM \notin {"process", "get_translator"}
    /\ outcome # "cv2.error"

\* C14: on an original map with a gap in its labels _get_translator skips the
\* absent ids, completes and returns a translator that assigns exactly the
\* ids that are present.
C14_GapsAreSkipped ==
    (GetTranslatorEnded /\ HasGap) =>
        /\ outcome \notin {"ValueError", "AssertionError"}
        /\ Range(AllValues(translator)) = Unique(instance_map) \ {0}

\* the merged labels that cover the largest number of pixels of instance i
MostCovering(i) ==
    {m \in Unique(merged_instance_map) :
        /\ MaskCount(instance_map, merged_instance_map, i, m) > 0
        /\ \A m2 \in Unique(merged_instance_map) :
              MaskCount(instance_map, merged_instance_map, i, m2)
                  <= MaskCount(instance_map, merged_instance_map, i, m)}

\* C15: in the translator _get_translator builds, every original instance
\* stands under the merged label that covers most of its pixels, the smallest
\* such label when several tie, and every value list is strictly ascending.
C15_AssignedToMostCoveringLabel ==
    (merger = "FeatureMerger" /\ pcM # "process") =>
        \A j \in DOMAIN translator :
            /\ \A n \in DOMAIN translator[j].v :
                  /\ translator[j].k \in MostCovering(translator[j].v[n])
                  /\ \A m \in MostCovering(translator[j].v[n]) : translator[j].k <= m
            /\ \A n1, n2 \in DOMAIN translator[j].v :
                  n1 < n2 => translator[j].v[n1] < translator[j].v[n2]

\* a translator has been returned in which an instance whose pixels are
\* shared equally by two merged labels stands under the smaller one
C15_Witness ==
    /\ TranslatorReturned
    /\ \E j \in DOMAIN translator :
          \E n \in DOMAIN translator[j].v :
              /\ Cardinality(MostCovering(translator[j].v[n])) = 2
              /\ translator[j].k = SetMin(MostCovering(translator[j].v[n]))

\* the merge loop has been entered: the output buffer is allocated
BufferAllocated == pcM \in {"merge_features", "merge_augmented_features"} \/ item >= 1

\* the 0-based row merged label k is written to lies in the buffer
RowInBuffer(k) == 0 <= k - 1 /\ k - 1 < Len(translator)

\* C26: for every translator the merge accepts, each of the len(translator)
\* rows of the pre-allocated output is written exactly once, at row
\* (merged label - 1) with 0 <= merged label - 1 < len(translator); no row
\* is returned uninitialised and none is written twice, also when the merged
\* labels are not exactly 1..K (a gap in the labels, or a key 0).
C26_EachRowWrittenOnce ==
    BufferAllocated =>
        /\ Len(merged_features) = Len(translator)
        /\ \A j \in DOMAIN translator : j < item => RowInBuffer(translator[j].k)
        /\ (outcome = "IndexError" /\ item \in DOMAIN translator) =>
              RowInBuffer(translator[item].k)
        /\ outcome = "returned" =>
              \A row \in DOMAIN merged_features :
                  Cardinality({j \in DOMAIN translator :
                                  PyIndex(translator[j].k - 1, Len(translator)) = row}) = 1

(***************************************************************************)
(* Properties of get_tissue_mask.                                          *)
(***************************************************************************)
AllZeroImage ==
    \A p \in Pixels(image) :
        IF ndim = 3 THEN At(image, p) = <<0, 0, 0>> ELSE At(image, p) = 0

\* C7: get_tissue_mask called on an all-zero image, for any
\* n_thresholding_steps, sigma and min_size, returns without raising and the
\* largest-region mask it returns is all-false.  (The thresholding writes in
\* place, so the image is all-zero at the call iff it still is at the end
\* when it was 2-D; a 3-D image is never written.)
C7_AllZeroImageGivesEmptyMask ==
    (pcT = "done" /\ AllZeroImage /\ (ndim = 2 => step = n_thresholding_steps))
        => /\ outcomeT = "returned"
           /\ \A p \in Pixels(mask) : At(mask, p) = FALSE

\* the connected components of the thresholded thumbnail, and those of them
\* with at least min_size pixels
Components == Label(Positive(thumbnail))

Survivors == {l \in DOMAIN Components : Cardinality(Components[l]) >= min_size}

MaskPixels == {p \in Pixels(mask) : At(mask, p)}

\* C19: when get_tissue_mask returns, every component still labelled in
\* labeled_regions has at least min_size pixels and every smaller component
\* is 0; largest_mask is the pixel set of the surviving component of greatest
\* pixel count, lies within the nonzero pixels of labeled_regions and is
\* all-false only when no component survives.
C19_SmallDroppedLargestKept ==
    (pcT = "done" /\ outcomeT = "returned") =>
        /\ \A p \in Pixels(labeled) :
              At(labeled, p) # 0 =>
                  Cardinality({q \in Pixels(labeled) : At(labeled, q) = At(labeled, p)})
                      >= min_size
        /\ \A l \in DOMAIN Components : \A p \in Components[l] :
              At(labeled, p) = IF l \in Survivors THEN l ELSE 0
        /\ \A p \in Pixels(labeled) \ Positive(thumbnail) : At(labeled, p) = 0
        /\ Survivors # {} =>
              \E l \in Survivors :
                  /\ \A m \in Survivors :
                        Cardinality(Components[l]) >= Cardinality(Components[m])
                  /\ MaskPixels = Components[l]
        /\ \A p \in MaskPixels : At(labeled, p) # 0
        /\ MaskPixels = {} => Survivors = {}

\* the call has returned where one component was dropped for its size and a
\* larger one survived and makes the mask
C19_Witness ==
    /\ pcT = "done"
    /\ outcomeT = "returned"
    /\ Len(Components) >= 2
    /\ Cardinality(Survivors) = 1
    /\ MaskPixels # {}
    /\ \E l \in DOMAIN Components : l \notin Survivors /\ l < SetMin(Survivors)

(***************************************************************************)
(* Properties of the feature extractors and of the patches.                *)
(***************************************************************************)
Names(row) == [j \in DOMAIN row |-> row[j].name]

ShapeNames ==
    <<"area", "convex_area", "eccentricity", "equivalent_diameter", "euler_number",
      "extent", "filled_area", "major_axis_length", "minor_axis_length",
      "orientation", "perimeter", "solidity">>

ChannelNames ==
    [b \in 1 .. 8 |-> "hist"]
        \o <<"color_mean", "color_std", "color_median", "color_skewness", "color_energy">>

TextureNames ==
    <<"entropy", "glcm_contrast", "glcm_dissimilarity", "glcm_homogeneity",
      "glcm_energy", "glcm_ASM">>

\* C1 as stated: every row of the matrix of HandcraftedFeatureExtractor has
\* exactly 72 entries: 12 shape values, then 18 colour values for each of the
\* 3 channels, then 6 texture values.
C1_RowsHave72Entries ==
    (extractor = "HandcraftedFeatureExtractor" /\ pcE \in {"loop", "done"})
        => \A k \in DOMAIN node_feat :
               /\ Len(node_feat[k]) = 72
               /\ SubSeq(Names(node_feat[k]), 1, 12) = ShapeNames
               /\ \A ch \in 0 .. 2 :
                      SubSeq(Names(node_feat[k]), 13 + 18 * ch, 25 + 18 * ch) = ChannelNames
               /\ SubSeq(Names(node_feat[k]), 67, 72) = TextureNames

\* C1, amended: for any image and any instance map, every row of the matrix
\* of HandcraftedFeatureExtractor has exactly 57 entries: 12 shape values,
\* then 13 colour values for each of the 3 channels (8 histogram fractions,
\* mean, std, median, skewness, energy), then 6 texture values, in that order.
C1_RowsHave57Entries ==
    (extractor = "HandcraftedFeatureExtractor" /\ pcE \in {"loop", "done"})
        => \A k \in DOMAIN node_feat :
               /\ Len(node_feat[k]) = 57
               /\ Names(node_feat[k]) =
                      ShapeNames \o ChannelNames \o ChannelNames \o ChannelNames
                          \o TextureNames
               /\ \A j \in 13 .. 20 : node_feat[k][j].den = node_feat[k][1].num

C1_Witness ==
    /\ extractor = "HandcraftedFeatureExtractor"
    /\ pcE = "done"
    /\ outcomeE = "returned"
    /\ Len(node_feat) = 2

NonzeroLabels == SortedSeq(Unique(instance_map) \ {0})

\* C2: for every instance map, also one with no nonzero label, there are as
\* many region properties as distinct nonzero labels, and the matrix returned
\* by HandcraftedFeatureExtractor and by DeepFeatureExtractor has that many
\* rows, row k being the features of the k-th smallest nonzero label.
C2_OneRowPerLabel ==
    pcE = "done" =>
        /\ outcomeE = "returned"
        /\ extractor = "HandcraftedFeatureExtractor" =>
               /\ Len(regions) = Len(NonzeroLabels)
               /\ Len(node_feat) = Len(NonzeroLabels)
               /\ \A k \in DOMAIN node_feat :
                      node_feat[k] = SpFeats(input_image, instance_map, NonzeroLabels[k])
        /\ extractor = "DeepFeatureExtractor" =>
               /\ Len(properties) = Len(NonzeroLabels)
               /\ Len(features) = Len(NonzeroLabels)
               /\ \A k \in DOMAIN features :
                      /\ (k - 1) \in DOMAIN windows
                      /\ windows[k - 1] = Window(instance_map, NonzeroLabels[k], size, fill_value)
                      /\ features[k] = Embedding(DatasetTransform(patches[k - 1]))

\* C6: for every instance, whatever its bounding box and however close to
\* the border, the patch _get_instance_patch returns has shape
\* (size, size, 3), the crop window satisfies 0 <= min <= max <= image
\* dimension on both axes, and the call raises nothing.
C6_PatchShapeAndWindow ==
    extractor = "DeepFeatureExtractor" =>
        /\ outcomeE \in {"none", "returned"}
        /\ \A k \in DOMAIN windows :
               /\ 0 <= windows[k].min_x /\ windows[k].min_x <= windows[k].max_x
               /\ windows[k].max_x <= Height(input_image)
               /\ 0 <= windows[k].min_y /\ windows[k].min_y <= windows[k].max_y
               /\ windows[k].max_y <= Width(input_image)
               /\ Len(patches[k]) = size
               /\ \A r \in DOMAIN patches[k] :
                      /\ Len(patches[k][r]) = size
                      /\ \A c \in DOMAIN patches[k][r] : Len(patches[k][r][c]) = 3

\* a patch was taken whose centred window overran the image on both sides of
\* the x axis and was clipped
C6_Witness ==
    /\ extractor = "DeepFeatureExtractor"
    /\ fill_value = None
    /\ \E k \in DOMAIN windows :
           /\ Centroid(instance_map, properties[k + 1]).x - (size \div 2) < 0
           /\ Centroid(instance_map, properties[k + 1]).x + (size \div 2) > Height(input_image)
           /\ windows[k].min_x = 0
           /\ windows[k].max_x = Height(input_image)
           /\ Len(patches[k]) = size

\* C8: for every order in which the loader delivers the batches, the
\* embeddings of a batch are written at the indices carried with it: on
\* return every row 0..n-1 has been written and row i holds the embedding of
\* the patch the dataset returned for instance i.
C8_RowsAtCarriedIndices ==
    (extractor = "DeepFeatureExtractor" /\ pcE = "done" /\ outcomeE = "returned")
        => /\ written = 0 .. (Len(properties) - 1)
           /\ \A k \in 0 .. (Len(properties) - 1) :
                  features[k + 1] = Embedding(DatasetTransform(patches[k]))

\* the second batch was handed over first, and its row is written
C8_Witness ==
    /\ extractor = "DeepFeatureExtractor"
    /\ Len(properties) = 2
    /\ consumed = 1
    /\ written = {1}
    /\ 0 \in DOMAIN patches
    /\ features[2] = Embedding(DatasetTransform(patches[1]))
    /\ features[2] # Embedding(DatasetTransform(patches[0]))

\* the interval of length 2 * (n div 2) centred on c, and an interval
\* clipped to an axis of the image
CentredOn(c, n) == [min |-> c - (n \div 2), max |-> c + (n \div 2)]

ClipTo(w, dim) == [min |-> Max(0, w.min), max |-> Min(dim, w.max)]

\* the window of the k-th patch on each axis, and the extent of the bounding
\* box of its instance
WindowX(k) == [min |-> windows[k].min_x, max |-> windows[k].max_x]

WindowY(k) == [min |-> windows[k].min_y, max |-> windows[k].max_y]

BoxX(k) ==
    [min |-> Bbox(instance_map, properties[k + 1]).min_x,
     max |-> Bbox(instance_map, properties[k + 1]).max_x]

BoxY(k) ==
    [min |-> Bbox(instance_map, properties[k + 1]).min_y,
     max |-> Bbox(instance_map, properties[k + 1]).max_y]

CentredX(k) == CentredOn(Centroid(instance_map, properties[k + 1]).x, size)

CentredY(k) == CentredOn(Centroid(instance_map, properties[k + 1]).y, size)

FitsOn(box) == box.max - box.min <= size

\* C16 as stated: when the bounding box fits the patch size on both axes the
\* crop window is the bounding box; when it exceeds the patch size on either
\* axis the crop window is the one centred on the rounded centroid; in both
\* cases clipped to the image.
C16_BoxOrCentredWindow ==
    extractor = "DeepFeatureExtractor" =>
        \A k \in DOMAIN windows :
            IF FitsOn(BoxX(k)) /\ FitsOn(BoxY(k))
            THEN /\ WindowX(k) = ClipTo(BoxX(k), Height(input_image))
                 /\ WindowY(k) = ClipTo(BoxY(k), Width(input_image))
            ELSE /\ WindowX(k) = ClipTo(CentredX(k), Height(input_image))
                 /\ WindowY(k) = ClipTo(CentredY(k), Width(input_image))

\* C16 (amended): the window is chosen on each axis by itself: with
\* fill_value set and the bounding box no longer than the patch size on that
\* axis it is the extent of the bounding box on that axis, otherwise
\* (fill_value None, or the box longer than the patch size on that axis) it is
\* the interval centred on the rounded centroid coordinate; then it is
\* clipped to the image.
C16_WindowChosenPerAxis ==
    extractor = "DeepFeatureExtractor" =>
        \A k \in DOMAIN windows :
            /\ WindowX(k) = ClipTo(IF fill_value # None /\ FitsOn(BoxX(k))
                                   THEN BoxX(k) ELSE CentredX(k), Height(input_image))
            /\ WindowY(k) = ClipTo(IF fill_value # None /\ FitsOn(BoxY(k))
                                   THEN BoxY(k) ELSE CentredY(k), Width(input_image))

\* with fill_value set, a patch was taken of an instance whose bounding box
\* fits the patch size on the x axis only: the window keeps the box on x,
\* where the centred interval is another one, and is centred on y
C16_Witness ==
    /\ extractor = "DeepFeatureExtractor"
    /\ fill_value # None
    /\ \E k \in DOMAIN windows :
          /\ FitsOn(BoxX(k)) /\ ~FitsOn(BoxY(k))
          /\ WindowX(k) = BoxX(k)
          /\ WindowX(k) # ClipTo(CentredX(k), Height(input_image))
          /\ WindowY(k) = ClipTo(CentredY(k), Width(input_image))

\* the 0-based position in the image that the pixel (r, c) of the k-th patch
\* was copied from; patch pixels outside the pasted region come from nowhere
PastedFrom(k, r, c) ==
    <<windows[k].min_x + (r - 1) - ((size - (windows[k].max_x - windows[k].min_x)) \div 2),
      windows[k].min_y + (c - 1) - ((size - (windows[k].max_y - windows[k].min_y)) \div 2)>>

IsPasted(k, r, c) ==
    /\ PastedFrom(k, r, c)[1] >= windows[k].min_x
    /\ PastedFrom(k, r, c)[1] < windows[k].max_x
    /\ PastedFrom(k, r, c)[2] >= windows[k].min_y
    /\ PastedFrom(k, r, c)[2] < windows[k].max_y

\* C17: with fill_value set, in the patch returned for instance L every
\* pixel that does not come from a pixel labelled L holds fill_value on all
\* channels, and every pixel that comes from a pixel labelled L inside the
\* crop window holds the value of the input image at that position.
C17_PatchShowsOnlyTheInstance ==
    (extractor = "DeepFeatureExtractor" /\ fill_value # None) =>
        \A k \in DOMAIN patches : \A r \in 1 .. size : \A c \in 1 .. size :
            IF /\ IsPasted(k, r, c)
               /\ instance_map[PastedFrom(k, r, c)[1] + 1][PastedFrom(k, r, c)[2] + 1]
                      = properties[k + 1]
            THEN patches[k][r][c]
                    = given_image[PastedFrom(k, r, c)[1] + 1][PastedFrom(k, r, c)[2] + 1]
            ELSE patches[k][r][c] = <<fill_value, fill_value, fill_value>>

\* the position of the energy of channel ch (1, 2, 3) in a row: after the 12
\* shape values and the 13 values of each earlier channel
EnergyAt(ch) == 12 + 13 * ch

\* the sum over the pixels of an instance of the square of the channel value,
\* taken in the integers
SumOfSquares(img, map, label, ch) ==
    SumOver(RegionPixels(map, label),
            [p \in RegionPixels(map, label) |-> At(img, p)[ch] * At(img, p)[ch]])

\* C22: for each channel and each instance, the energy feature of
\* HandcraftedFeatureExtractor equals the mean, over the pixels of the
\* instance mask, of the square v*v of the 8-bit channel value, not reduced
\* modulo 256.
C22_EnergyIsMeanOfSquares ==
    (extractor = "HandcraftedFeatureExtractor" /\ pcE \in {"loop", "done"}) =>
        \A k \in DOMAIN node_feat : \A ch \in 1 .. 3 :
            /\ node_feat[k][EnergyAt(ch)].name = "color_energy"
            /\ node_feat[k][EnergyAt(ch)].num * Cardinality(RegionPixels(instance_map, regions[k]))
                  = SumOfSquares(input_image, instance_map, regions[k], ch)
                        * node_feat[k][EnergyAt(ch)].den

\* the patch _get_instance_patch returns for the index k on the image as the
\* caller passed it
PatchOnGivenImage(k) ==
    GetInstancePatch(given_image, instance_map, properties[k + 1], size, fill_value).patch

XLength(k) == windows[k].max_x - windows[k].min_x

YLength(k) == windows[k].max_y - windows[k].min_y

\* image_top_left of lines 280-283 for an extent
TopLeft(length) == (size - length) \div 2

\* C27: the two assertions of _get_instance_patch never fail: for every
\* image, instance map, patch size >= 1 and fill_value setting, the extent
\* of the chosen and clipped crop window satisfies 0 <= x_length <= size and
\* 0 <= y_length <= size, and the centred destination slice lies inside the
\* output patch.
C27_AssertionsNeverFail ==
    extractor = "DeepFeatureExtractor" =>
        /\ outcomeE # "AssertionError"
        /\ \A k \in DOMAIN windows :
              /\ 0 <= XLength(k) /\ XLength(k) <= size
              /\ 0 <= YLength(k) /\ YLength(k) <= size
              /\ 0 <= TopLeft(XLength(k)) /\ TopLeft(XLength(k)) + XLength(k) <= size
              /\ 0 <= TopLeft(YLength(k)) /\ TopLeft(YLength(k)) + YLength(k) <= size
              /\ Range(Destination(XLength(k), size)) =
                     {TopLeft(XLength(k)) + n : n \in 0 .. XLength(k) - 1}
              /\ Range(Destination(YLength(k), size)) =
                     {TopLeft(YLength(k)) + n : n \in 0 .. YLength(k) - 1}

\* the extraction returned with a window that fills the patch on one axis and
\* is shorter than the patch, and not empty, on the other
C27_Witness ==
    /\ extractor = "DeepFeatureExtractor"
    /\ outcomeE = "returned"
    /\ \E k \in DOMAIN windows : XLength(k) = size /\ 0 < YLength(k) /\ YLength(k) < size

(***************************************************************************)
(* Claims about TissueMask.process_and_save.                               *)
(***************************************************************************)
\* the call that has just been made was made for this name on an object
\* with a base path
CallFor(name) ==
    /\ calls' = calls + 1
    /\ output_name' = name
    /\ base_path # "None"

\* C11: when the output file of the name exists (and can be read), the
\* stored image is returned and process is not invoked; when it does not
\* exist, process is invoked once and what it returns is stored under the
\* name and returned; once a call for a name has returned, no later call for
\* that name invokes process and each returns the stored image.
C11_StoredOutputShortCircuits ==
    [][\A name \in OutputNames : CallFor(name) =>
        /\ (output_dir[name].exists /\ output_dir[name].readable) =>
                /\ outcomeS' = "returned"
                /\ output' = PngDecode(output_dir[name])
                /\ process_calls' = process_calls
                /\ output_dir' = output_dir
        /\ ~output_dir[name].exists =>
                /\ process_calls' = [process_calls EXCEPT ![name] = @ + 1]
                /\ outcomeS' = "returned" =>
                        /\ output_dir'[name] = PngEncode(output')
                        /\ PngDecode(output_dir'[name]) = output'
                        /\ \A other \in OutputNames \ {name} :
                                output_dir'[other] = output_dir[other]
        /\ name \in served =>
                /\ outcomeS' = "returned"
                /\ process_calls' = process_calls
                /\ output' = PngDecode(output_dir[name])]_vars

\* a name was computed and stored by one call and served from the file by a
\* later one
C11_Witness ==
    /\ calls >= 2
    /\ outcomeS = "returned"
    /\ output_name \in served
    /\ process_calls[output_name] = 1
    /\ logged = <<"info">>
    /\ output = PngDecode(output_dir[output_name])

\* C12: when the output file exists and reading it fails, the error is
\* logged at critical level and raised; nothing is returned, process is not
\* invoked and the file is left as it was.
C12_ReadErrorIsLoggedAndRaised ==
    [][\A name \in OutputNames :
        (CallFor(name) /\ output_dir[name].exists /\ ~output_dir[name].readable) =>
            /\ outcomeS' = "OSError"
            /\ logged'[Len(logged')] = "critical"
            /\ output' = <<>>
            /\ process_calls' = process_calls
            /\ output_dir' = output_dir]_vars

\* a call has met an unreadable file
C12_Witness ==
    /\ outcomeS = "OSError"
    /\ output_dir[output_name] = Unreadable
    /\ process_calls[output_name] = 0
    /\ logged = <<"info", "critical">>

(***************************************************************************)
(* Claims about the resolution of the backbone.                            *)
(***************************************************************************)
\* PatchFeatureExtractor's constructor has run
PatchFeatureExtractorBuilt == outcomeR \in {"constructed", "LoaderError"}

\* C13: PatchFeatureExtractor calls exactly one loader, chosen by the string
\* alone: the registry loader when the string starts with "s3://mlflow",
\* otherwise the local loader when it ends with ".pth", otherwise the zoo
\* lookup; a string with both the prefix and the suffix goes to the registry.
C13_OneLoaderByPrefixThenSuffix ==
    PatchFeatureExtractorBuilt =>
        /\ Len(loader_calls) = 1
        /\ loader_calls[1].argument = architecture
        /\ StartsWith(architecture, MlflowPrefix) =>
                loader_calls[1].loader = "_get_mlflow_model"
        /\ (~StartsWith(architecture, MlflowPrefix) /\ EndsWith(architecture, PthSuffix)) =>
                loader_calls[1].loader = "_get_local_model"
        /\ (~StartsWith(architecture, MlflowPrefix) /\ ~EndsWith(architecture, PthSuffix)) =>
                loader_calls[1].loader = "_get_torchvision_model"

\* a string with both the prefix and the suffix has been resolved
C13_Witness ==
    /\ PatchFeatureExtractorBuilt
    /\ StartsWith(architecture, MlflowPrefix)
    /\ EndsWith(architecture, PthSuffix)
    /\ loader_calls[1].loader = "_get_mlflow_model"

(***************************************************************************)
(* Claims about AugmentedDeepFeatureExtractor.                             *)
(***************************************************************************)
\* the lists the constructor loops over
RotationsUsed == IF rotations.none THEN <<0>> ELSE rotations.list

FlipsUsed == IF flips.none THEN <<"n">> ELSE flips.list

\* C18: the augmentation axis has one entry per rotation and flip, the entry
\* of rotation a and flip b standing at index a * number of flips + b (one
\* entry that changes nothing when neither list is given); every batch of a
\* pass holds the patches of the one dataset under the transform of the pass;
\* and on return every cell [instance, augmentation] has been assigned exactly
\* once and holds the embedding of that instance's patch under that transform.
C18_CellsWrittenOncePerTransform ==
    (extractor = "AugmentedDeepFeatureExtractor" /\ pcE # "init") =>
        /\ Len(transforms) = Len(RotationsUsed) * Len(FlipsUsed)
        /\ \A a \in 0 .. Len(RotationsUsed) - 1 : \A b \in 0 .. Len(FlipsUsed) - 1 :
              transforms[a * Len(FlipsUsed) + b + 1]
                  = [angle |-> RotationsUsed[a + 1], flip |-> FlipsUsed[b + 1]]
        /\ (rotations.none /\ flips.none) =>
              /\ Len(transforms) = 1
              /\ \A key \in DOMAIN patches :
                    AugmentedTransform(patches[key], transforms[1])
                        = DatasetTransform(patches[key])
        /\ pcE = "loop" =>
              \A batch \in in_flight : \A n \in DOMAIN batch.i :
                  batch.image_batch[n]
                      = AugmentedTransform(patches[<<pass, batch.i[n]>>], transforms[pass + 1])
        /\ (pcE = "done" /\ outcomeE = "returned") =>
              /\ Len(features) = Len(RegionLabels(instance_map))
              /\ \A j \in 0 .. Len(features) - 1 :
                    /\ Len(features[j + 1]) = Len(transforms)
                    /\ \A i \in 0 .. Len(transforms) - 1 :
                          /\ cell_writes[<<j, i>>] = 1
                          /\ features[j + 1][i + 1]
                                = Embedding(AugmentedTransform(patches[<<i, j>>],
                                                               transforms[i + 1]))

\* the extractor has returned the features of two instances under two
\* rotations and two flips, and the embeddings of an instance differ between
\* the augmentations
C18_Witness ==
    /\ extractor = "AugmentedDeepFeatureExtractor"
    /\ pcE = "done"
    /\ outcomeE = "returned"
    /\ Len(features) = 2
    /\ Len(transforms) = 4
    /\ transforms[2] = [angle |-> 0, flip |-> "v"]
    /\ transforms[3] = [angle |-> 180, flip |-> "n"]
    /\ Cardinality({features[1][i] : i \in 1 .. 4}) = 4

(***************************************************************************)
(* Claims about GaussianTissueMask.process.                                *)
(***************************************************************************)
\* the dilated mask of iteration n times the grayscale image has no nonzero
\* pixel
EmptyMaskedRegion(n) ==
    \A p \in Pixels(image_gray) : At(iterations[n].mask_, p) * At(image_gray, p) = 0

\* process has ended and its last call of get_tissue_mask found no component
\* at all: the thresholded thumbnail had no positive pixel
EndedWithoutComponent == pcG = "done" /\ Positive(thumbnail) = {}

\* the pixels the iterations that passed the test have added, at the size of
\* the working image
Accumulated ==
    [r \in 1 .. Height(image_gray) |-> [c \in 1 .. Width(image_gray) |->
        IF \E n \in DOMAIN iterations :
               iterations[n].passed /\ iterations[n].mask_[r][c] # 0
        THEN 1 ELSE 0]]

\* C20: an iteration in which the dilated mask times the grayscale image has
\* no nonzero pixel, the case that the thresholding finds no component at all
\* included, ends the loop at once, and process returns the tissue mask
\* accumulated so far without raising.
C20_EmptyRegionEndsTheLoop ==
    /\ \A n \in DOMAIN iterations :
          EmptyMaskedRegion(n) => (~iterations[n].passed /\ n = Len(iterations))
    /\ (pcG = "done" /\ iterations # <<>> /\ EmptyMaskedRegion(Len(iterations))) =>
          /\ outcomeG = "returned"
          /\ tissue_mask = GaussianTissueMask_upsample(Accumulated, Height(caller_image),
                                                       Width(caller_image))
    /\ EndedWithoutComponent =>
          /\ outcomeG = "returned"
          /\ tissue_mask = GaussianTissueMask_upsample(Accumulated, Height(caller_image),
                                                       Width(caller_image))

\* the pixels that image_masked[image_masked > 0] selects in iteration n
MaskedPixels(n) ==
    {p \in Pixels(image_gray) : iterations[n].mask_[p[1]][p[2]] # 0 /\ At(image_gray, p) > 0}

MaskedSum(n) == SumOver(MaskedPixels(n), [p \in MaskedPixels(n) |-> At(image_gray, p)])

\* the mean of the masked grayscale pixels of iteration n is below, or above,
\* background_gray_value (neither holds when no pixel is selected)
MaskedMeanBelow(n) ==
    /\ MaskedPixels(n) # {}
    /\ MaskedSum(n) < background_gray_value * Cardinality(MaskedPixels(n))

MaskedMeanAbove(n) ==
    /\ MaskedPixels(n) # {}
    /\ MaskedSum(n) > background_gray_value * Cardinality(MaskedPixels(n))

\* the loop is running: between two tests of line 223
LoopRunning == pcG \in {"call", "in_call"}

\* the loop went on after every iteration but the last, went on after the last
\* one exactly when its mean was below the bound, and stopped when it was above
ContinuesWhileBelow ==
    /\ \A n \in DOMAIN iterations :
          /\ iterations[n].passed <=> MaskedMeanBelow(n)
          /\ MaskedMeanAbove(n) => ~iterations[n].passed
          /\ n < Len(iterations) => iterations[n].passed
    /\ iterations # <<>> =>
          IF iterations[Len(iterations)].passed
          THEN pcG \notin {"return"} /\ outcomeG # "returned"
          ELSE pcG \in {"return", "done"} /\ outcomeG \in {"none", "returned"}

\* the running mask, and the mask the loop leaves, is the union of the masks
\* of the iterations that passed
UnionOfPassed ==
    /\ (LoopRunning \/ pcG = "return") => tissue_mask = Accumulated
    /\ outcomeG = "returned" =>
          tissue_mask = GaussianTissueMask_upsample(Accumulated, Height(caller_image),
                                                    Width(caller_image))

\* a step of the loop clears no pixel of the running mask
NeverCleared ==
    LoopRunning =>
        \A p \in Pixels(tissue_mask) :
            At(tissue_mask, p) = 1 => tissue_mask'[p[1]][p[2]] = 1

\* C21: the loop of GaussianTissueMask.process continues exactly while the
\* mean of the masked grayscale pixels is below background_gray_value and
\* stops when the mean exceeds it; the mask it leaves (before upsampling) is
\* the union of the dilated masks of exactly the iterations that passed the
\* test, the stopping iteration adds nothing, and a pixel once set in the
\* running tissue mask is never cleared.
C21_AccumulatesWhileMeanBelow ==
    /\ [](ContinuesWhileBelow /\ UnionOfPassed)
    /\ [][NeverCleared]_vars

\* process returned after two iterations that passed and one that stopped the
\* loop on a mean above the bound
C21_Witness ==
    /\ outcomeG = "returned"
    /\ Len(iterations) = 3
    /\ MaskedMeanAbove(3)

White == <<255, 255, 255>>

\* an iteration that continues turns a pixel of the working image white that
\* was not white before, and makes no white pixel dark
ContinuingIterationWhitens ==
    (pcG = "in_call" /\ pcG' = "call") =>
        /\ \E p \in Pixels(image) : At(image, p) # White /\ image'[p[1]][p[2]] = White
        /\ \A p \in Pixels(image) : At(image, p) = White => image'[p[1]][p[2]] = White

C25_CallerImageUnchanged ==
    /\ (pcG = "rest" /\ pcT # "rest") => image = passed_image
    /\ pcG # "rest" => caller_image = passed_image

(***************************************************************************)
(* Claims about the two _downsample functions.                             *)
(***************************************************************************)
BothCalled == merger_output # NotCalled /\ mask_output # NotCalled

\* an output has floor(H / f) rows and floor(W / f) columns
DownsampledShape(out) ==
    /\ out.outcome = "returned"
    /\ Height(out.array) = Height(input_array) \div factor_given
    /\ Width(out.array) = Width(input_array) \div factor_given

\* C28: FeatureMerger._downsample and GaussianTissueMask._downsample agree:
\* for the same input array of height H and width W and the same factor f,
\* both return an array with floor(H / f) rows and floor(W / f) columns,
\* including when H differs from W.
C28_DownsamplesAgree ==
    (BothCalled /\ ~ResizeFails(input_array, factor_given)) =>
        /\ DownsampledShape(merger_output)
        /\ DownsampledShape(mask_output)
        /\ merger_output = mask_output

====
